---------------------------- MODULE Spec2Model ----------------------------
(***************************************************************************)
(* Model of the lockbox program (programs/lockbox): the chunked storage    *)
(* layer (MasterLockbox, StorageChunk) and the two social-recovery         *)
(* protocols (recovery_management: share submission, V1;                   *)
(* recovery_management_v2: challenge/commitment, V2).                      *)
(*                                                                         *)
(* Accounts are program-derived: an account is found by the seeds of its   *)
(* Accounts struct, so the state is a set of maps from seeds to account    *)
(* contents.  An instruction that returns Err is aborted by the runtime    *)
(* and none of its writes persist (TxCommit).  Every instruction records   *)
(* its outcome in result.                                                  *)
(*                                                                         *)
(* Not modelled: lamports/rent, PDA bumps, and the opaque metadata of a    *)
(* DataEntryHeader (entry_type, category, title_hash, flags, timestamps,   *)
(* access_count), which no handler reads back.  Sizes, offsets and         *)
(* counters stay far below 2^31 (chunks hold at most 10240 bytes), so the  *)
(* upper overflow branch of checked_add is unreachable and only the        *)
(* underflow branch of checked_sub and of unchecked subtraction is kept.   *)
(***************************************************************************)
EXTENDS Integers, Sequences, FiniteSets, TLC

VARIABLES
    clock,                \* Clock::get()?.unix_timestamp
    master_lockbox,       \* seeds [b"master_lockbox", key]
    storage_chunk,        \* seeds [b"storage_chunk", master_lockbox, chunk_index]
    recovery_config,      \* seeds [b"recovery_config", owner]
    recovery_request,     \* seeds [b"recovery_request", owner, request_id]
    recovery_config_v2,   \* seeds [b"recovery_config_v2", owner]
    recovery_request_v2,  \* seeds [b"recovery_request_v2", owner, request_id]
    stored_log,           \* msg!("Password entry {} stored successfully") per vault
    result                \* outcome of the last instruction

vars == <<clock, master_lockbox, storage_chunk, recovery_config, recovery_request,
          recovery_config_v2, recovery_request_v2, stored_log, result>>

storageVars == <<master_lockbox, storage_chunk, stored_log>>
recoveryV1Vars == <<recovery_config, recovery_request>>
recoveryV2Vars == <<recovery_config_v2, recovery_request_v2>>

-----------------------------------------------------------------------------
(* Program constants *)

MAX_ENTRIES_PER_CHUNK == 100
MAX_CHUNKS == 100
MIN_CHUNK_SIZE == 1024
MAX_CHUNK_SIZE == 10240
MAX_REALLOC_INCREMENT == 10240
MAX_GUARDIANS == 10
MIN_RECOVERY_DELAY == 86400
MAX_RECOVERY_DELAY == 2592000
RECOVERY_EXPIRATION_PERIOD == 2592000
RECOVERY_COOLDOWN == 3600
CHALLENGE_LEN == 80
SUBSCRIPTION_DURATION == 2592000
U8_MAX == 255

-----------------------------------------------------------------------------
(* Bounds of the model *)

MaxEntryId == 2        \* SpecChunk stops storing once next_entry_id exceeds this
MaxRequestId == 2      \* recovery specs stop initiating once last_request_id reaches this

Owners == {"alice", "bob"}                 \* keys that may own a vault
Guardians == {"g1", "g2", "g3", "g4"}      \* keys that may act as guardians
Keys == Owners \cup Guardians
ChunkIdx == 0..2
NoAccount == [closed |-> TRUE]     \* an address that holds no account

Min(a, b) == IF a < b THEN a ELSE b

\* A payload of len bytes whose content depends on the position and on a seed.
Payload(len, seed) == [i \in 1..len |-> (seed + 7 * i) % 256]

-----------------------------------------------------------------------------
(* state/subscription.rs *)

max_capacity(tier) ==
    CASE tier = "Free" -> 1024
      [] tier = "Basic" -> 10240
      [] tier = "Premium" -> 102400
      [] tier = "Pro" -> 1048576

can_upgrade_to(from, to) ==
    \/ from = "Free" /\ to \in {"Basic", "Premium", "Pro"}
    \/ from = "Basic" /\ to \in {"Premium", "Pro"}
    \/ from = "Premium" /\ to = "Pro"

-----------------------------------------------------------------------------
(* state/master_lockbox.rs *)

MasterLockbox_initialize(owner) ==
    [ owner |-> owner,
      total_entries |-> 0,
      storage_chunks_count |-> 0,
      subscription_tier |-> "Free",
      subscription_expires |-> 0,
      total_capacity |-> 0,
      storage_used |-> 0,
      storage_chunks |-> << >>,
      next_entry_id |-> 1 ]

\* Faulty variant: the number of chunks is not limited.
add_chunk_unlimited(ml, chunk_info) ==
    [err |-> "OK",
     ml |-> [ml EXCEPT !.storage_chunks = Append(@, chunk_info),
                       !.storage_chunks_count = @ + 1,
                       !.total_capacity = @ + chunk_info.max_capacity]]

add_chunk(ml, chunk_info) ==
    IF ~(Len(ml.storage_chunks) < MAX_CHUNKS)
    THEN [err |-> "MaxChunksReached", ml |-> ml]
    ELSE [err |-> "OK",
          ml |-> [ml EXCEPT !.storage_chunks = Append(@, chunk_info),
                            !.storage_chunks_count = @ + 1,
                            !.total_capacity = @ + chunk_info.max_capacity]]

\* position of the first mirror entry with this chunk_index, 0 if none
FindChunkInfo(ml, chunk_index) ==
    LET S == {i \in 1..Len(ml.storage_chunks) :
                 ml.storage_chunks[i].chunk_index = chunk_index}
    IN IF S = {} THEN 0 ELSE CHOOSE i \in S : \A j \in S : i <= j

\* Faulty variant: the mirror entry is updated but storage_used is not.
update_chunk_usage_mirror_only(ml, chunk_index, new_size) ==
    LET pos == FindChunkInfo(ml, chunk_index) IN
    IF pos = 0 THEN [err |-> "ChunkNotFound", ml |-> ml]
    ELSE [err |-> "OK", ml |-> [ml EXCEPT !.storage_chunks[pos].size_used = new_size]]

update_chunk_usage(ml, chunk_index, new_size) ==
    LET pos == FindChunkInfo(ml, chunk_index) IN
    IF pos = 0 THEN [err |-> "ChunkNotFound", ml |-> ml]
    ELSE LET old_size == ml.storage_chunks[pos].size_used
             ml1 == [ml EXCEPT !.storage_chunks[pos].size_used = new_size]
             used == IF new_size > old_size
                     THEN ml.storage_used + (new_size - old_size)
                     ELSE ml.storage_used - (old_size - new_size)
         IN IF used < 0
            THEN [err |-> "Panic", ml |-> ml1]
            ELSE [err |-> "OK", ml |-> [ml1 EXCEPT !.storage_used = used]]

has_capacity(ml, additional_bytes) ==
    ml.storage_used + additional_bytes <= max_capacity(ml.subscription_tier)

is_subscription_active(ml, current_timestamp) ==
    IF ml.subscription_tier = "Free" THEN TRUE
    ELSE current_timestamp < ml.subscription_expires

\* Faulty variant: hands out the counter without advancing it.
get_next_entry_id_stuck(ml) == [id |-> ml.next_entry_id, ml |-> ml]

\* returns the id and the lockbox with the counter advanced
get_next_entry_id(ml) ==
    [id |-> ml.next_entry_id, ml |-> [ml EXCEPT !.next_entry_id = @ + 1]]

increment_entries(ml) == [ml EXCEPT !.total_entries = @ + 1]

decrement_entries(ml) ==
    IF ml.total_entries > 0 THEN [ml EXCEPT !.total_entries = @ - 1] ELSE ml

-----------------------------------------------------------------------------
(* state/storage_chunk.rs *)

StorageChunk_initialize(master, owner, chunk_index, initial_capacity) ==
    [ master_lockbox |-> master,
      owner |-> owner,
      chunk_index |-> chunk_index,
      max_capacity |-> initial_capacity,
      current_size |-> 0,
      encrypted_data |-> << >>,
      entry_headers |-> << >>,
      entry_count |-> 0 ]

\* Rust slice v[a..b] (0-based, half open)
Slice(v, a, b) == SubSeq(v, a + 1, b)

\* position of the first header with this entry_id, 0 if none
HeaderPosition(chunk, entry_id) ==
    LET S == {i \in 1..Len(chunk.entry_headers) :
                 chunk.entry_headers[i].entry_id = entry_id}
    IN IF S = {} THEN 0 ELSE CHOOSE i \in S : \A j \in S : i <= j

\* Faulty variant: the capacity requirement is dropped.
within_any_capacity(chunk, new_size) == TRUE

\* require!(new_size <= self.max_capacity, InsufficientChunkCapacity)
within_max_capacity(chunk, new_size) == new_size <= chunk.max_capacity

\* Faulty variant: the payload is written at the front of the arena.
add_entry_at_front(chunk, entry_header, data) ==
    [err |-> "OK",
     chunk |-> [chunk EXCEPT !.entry_headers = Append(@, entry_header),
                             !.entry_count = @ + 1,
                             !.encrypted_data = data \o @,
                             !.current_size = @ + Len(data)]]

\* Faulty variant: the number of headers is not limited.
add_entry_unlimited(chunk, entry_header, data) ==
    IF ~within_max_capacity(chunk, chunk.current_size + Len(data))
    THEN [err |-> "InsufficientChunkCapacity", chunk |-> chunk]
    ELSE [err |-> "OK",
          chunk |-> [chunk EXCEPT !.entry_headers = Append(@, entry_header),
                                  !.entry_count = @ + 1,
                                  !.encrypted_data = @ \o data,
                                  !.current_size = @ + Len(data)]]

add_entry(chunk, entry_header, data) ==
    IF ~(Len(chunk.entry_headers) < MAX_ENTRIES_PER_CHUNK)
    THEN [err |-> "MaxEntriesPerChunk", chunk |-> chunk]
    ELSE LET data_len == Len(data)
             new_size == chunk.current_size + data_len
         IN IF ~within_max_capacity(chunk, new_size)
            THEN [err |-> "InsufficientChunkCapacity", chunk |-> chunk]
            ELSE [err |-> "OK",
                  chunk |-> [chunk EXCEPT
                      !.entry_headers = Append(@, entry_header),
                      !.entry_count = @ + 1,
                      !.encrypted_data = @ \o data,
                      !.current_size = new_size]]

\* Faulty variant: the payload is replaced but the later headers keep their
\* offsets.
update_entry_no_shift(chunk, entry_id, new_data) ==
    LET header_idx == HeaderPosition(chunk, entry_id) IN
    IF header_idx = 0 THEN [err |-> "EntryNotFound", chunk |-> chunk]
    ELSE
    LET old_offset == chunk.entry_headers[header_idx].offset
        old_size == chunk.entry_headers[header_idx].size
        len == Len(chunk.encrypted_data)
        new_total_size == chunk.current_size - old_size + Len(new_data)
    IN
    IF ~within_max_capacity(chunk, new_total_size)
    THEN [err |-> "InsufficientChunkCapacity", chunk |-> chunk]
    ELSE [err |-> "OK",
          chunk |-> [chunk EXCEPT
              !.encrypted_data = Slice(@, 0, old_offset) \o new_data
                                 \o Slice(@, Min(old_offset + old_size, len), len),
              !.entry_headers[header_idx].size = Len(new_data),
              !.current_size = new_total_size]]

update_entry(chunk, entry_id, new_data) ==
    LET header_idx == HeaderPosition(chunk, entry_id) IN
    IF header_idx = 0 THEN [err |-> "EntryNotFound", chunk |-> chunk]
    ELSE
    LET old_offset == chunk.entry_headers[header_idx].offset
        old_size == chunk.entry_headers[header_idx].size
        new_size == Len(new_data)
        new_total_size == IF new_size > old_size
                          THEN chunk.current_size + (new_size - old_size)
                          ELSE chunk.current_size - (old_size - new_size)
        len == Len(chunk.encrypted_data)
        shifted == [i \in 1..Len(chunk.entry_headers) |->
                      IF i > header_idx
                      THEN [chunk.entry_headers[i] EXCEPT
                               !.offset = IF new_size > old_size
                                          THEN @ + (new_size - old_size)
                                          ELSE @ - (old_size - new_size)]
                      ELSE chunk.entry_headers[i]]
        new_bytes == IF new_size = old_size
                     THEN Slice(chunk.encrypted_data, 0, old_offset) \o new_data
                          \o Slice(chunk.encrypted_data, old_offset + new_size, len)
                     ELSE Slice(chunk.encrypted_data, 0, old_offset) \o new_data
                          \o (IF old_offset + old_size < len
                              THEN Slice(chunk.encrypted_data, old_offset + old_size, len)
                              ELSE << >>)
        headers1 == IF new_size = old_size THEN chunk.entry_headers ELSE shifted
    IN
    IF new_total_size < 0
    THEN [err |-> "InvalidDataSize", chunk |-> chunk]
    ELSE IF ~within_max_capacity(chunk, new_total_size)
    THEN [err |-> "InsufficientChunkCapacity", chunk |-> chunk]
    ELSE IF new_size = old_size /\ old_offset + new_size > len
    THEN [err |-> "Panic", chunk |-> chunk]
    ELSE IF new_size # old_size /\ old_offset > len
    THEN [err |-> "Panic", chunk |-> chunk]
    ELSE IF new_size # old_size
            /\ \E i \in 1..Len(shifted) : shifted[i].offset < 0
    THEN [err |-> "InvalidEntryOffset", chunk |-> chunk]
    ELSE [err |-> "OK",
          chunk |-> [chunk EXCEPT
              !.encrypted_data = new_bytes,
              !.entry_headers = [headers1 EXCEPT ![header_idx].size = new_size],
              !.current_size = new_total_size]]

\* Vec::remove(i) on a 1-based sequence
RemoveAt(s, i) == SubSeq(s, 1, i - 1) \o SubSeq(s, i + 1, Len(s))

\* Faulty variant: the entry is cut out but the later headers keep their offsets.
delete_entry_keeps_offsets(chunk, entry_id) ==
    LET header_idx == HeaderPosition(chunk, entry_id) IN
    IF header_idx = 0 THEN [err |-> "EntryNotFound", chunk |-> chunk]
    ELSE
    LET offset == chunk.entry_headers[header_idx].offset
        size == chunk.entry_headers[header_idx].size
        len == Len(chunk.encrypted_data)
    IN [err |-> "OK",
        chunk |-> [chunk EXCEPT
            !.entry_headers = RemoveAt(@, header_idx),
            !.entry_count = @ - 1,
            !.encrypted_data = Slice(@, 0, offset) \o Slice(@, Min(offset + size, len), len),
            !.current_size = @ - size]]

delete_entry(chunk, entry_id) ==
    LET header_idx == HeaderPosition(chunk, entry_id) IN
    IF header_idx = 0 THEN [err |-> "EntryNotFound", chunk |-> chunk]
    ELSE
    LET offset == chunk.entry_headers[header_idx].offset
        size == chunk.entry_headers[header_idx].size
        len == Len(chunk.encrypted_data)
        new_data == Slice(chunk.encrypted_data, 0, offset)
                    \o (IF offset + size < len
                        THEN Slice(chunk.encrypted_data, offset + size, len)
                        ELSE << >>)
        shifted == [i \in 1..Len(chunk.entry_headers) |->
                      IF i > header_idx
                      THEN [chunk.entry_headers[i] EXCEPT !.offset = @ - size]
                      ELSE chunk.entry_headers[i]]
    IN
    IF size > len \/ offset > len
    THEN [err |-> "Panic", chunk |-> chunk]
    ELSE IF \E i \in 1..Len(shifted) : shifted[i].offset < 0
    THEN [err |-> "InvalidEntryOffset", chunk |-> chunk]
    ELSE IF chunk.entry_count < 1 \/ chunk.current_size < size
    THEN [err |-> "Panic", chunk |-> chunk]
    ELSE [err |-> "OK",
          chunk |-> [chunk EXCEPT
              !.entry_headers = RemoveAt(shifted, header_idx),
              !.entry_count = @ - 1,
              !.encrypted_data = new_data,
              !.current_size = @ - size]]

get_entry_data(chunk, entry_id) ==
    LET pos == HeaderPosition(chunk, entry_id) IN
    IF pos = 0 THEN [err |-> "EntryNotFound", data |-> << >>]
    ELSE LET offset == chunk.entry_headers[pos].offset
             size == chunk.entry_headers[pos].size
         IN IF ~(offset + size <= Len(chunk.encrypted_data))
            THEN [err |-> "InvalidEntryOffset", data |-> << >>]
            ELSE [err |-> "OK",
                  data |-> Slice(chunk.encrypted_data, offset, offset + size)]

available_space(chunk) == chunk.max_capacity - chunk.current_size

\* u32 subtraction in available_space: a negative difference aborts the call
can_fit(chunk, size) == available_space(chunk) >= size

-----------------------------------------------------------------------------
(* Outcome of an instruction, and the runtime's all-or-nothing commit *)

Result(op, err, signer, target, idx, id, data) ==
    [op |-> op, err |-> err, signer |-> signer, target |-> target,
     idx |-> idx, id |-> id, data |-> data]

\* Faulty variant: the writes of a failed instruction are kept.
TxCommitAlways(err, pre, post) == post

\* An instruction that returns Err is rolled back: the accounts keep their
\* contents from before the call.
TxCommit(err, pre, post) == IF err = "OK" THEN post ELSE pre

-----------------------------------------------------------------------------
(* instructions/initialize.rs *)

InitializeMasterLockbox(signer) ==
    LET err == IF master_lockbox[signer] # NoAccount
               THEN "AccountAlreadyInUse" ELSE "OK"
    IN /\ master_lockbox' = TxCommit(err, master_lockbox,
              [master_lockbox EXCEPT ![signer] = MasterLockbox_initialize(signer)])
       /\ stored_log' = TxCommit(err, stored_log, [stored_log EXCEPT ![signer] = << >>])
       /\ result' = Result("initialize_master_lockbox", err, signer, signer, 0, 0, << >>)
       /\ UNCHANGED <<clock, storage_chunk, recoveryV1Vars, recoveryV2Vars>>

\* #[derive(Accounts)] InitializeStorageChunk
InitializeStorageChunkAccounts(signer, chunk_index) ==
    CASE master_lockbox[signer] = NoAccount -> "AccountNotInitialized"
      [] master_lockbox[signer].owner # signer -> "Unauthorized"
      [] storage_chunk[<<signer, chunk_index>>] # NoAccount -> "AccountAlreadyInUse"
      [] OTHER -> "OK"

initialize_storage_chunk_handler(ml, master, owner, chunk_index, initial_capacity) ==
    LET fresh == StorageChunk_initialize(master, owner, chunk_index, initial_capacity)
        new_total_capacity == ml.total_capacity + initial_capacity
        chunk_info == [chunk_index |-> chunk_index,
                       max_capacity |-> initial_capacity,
                       size_used |-> 0]
        reg == add_chunk(ml, chunk_info)
    IN
    IF ~(chunk_index = ml.storage_chunks_count)
    THEN [err |-> "InvalidChunkIndex", ml |-> ml, chunk |-> NoAccount]
    ELSE IF \E i \in 1..Len(ml.storage_chunks) :
               ml.storage_chunks[i].chunk_index = chunk_index
    THEN [err |-> "DuplicateChunk", ml |-> ml, chunk |-> NoAccount]
    ELSE IF ~(initial_capacity >= MIN_CHUNK_SIZE)
    THEN [err |-> "InvalidDataSize", ml |-> ml, chunk |-> NoAccount]
    ELSE IF ~(initial_capacity <= MAX_CHUNK_SIZE)
    THEN [err |-> "InvalidDataSize", ml |-> ml, chunk |-> NoAccount]
    ELSE IF ~(new_total_capacity <= max_capacity(ml.subscription_tier))
    THEN [err |-> "InsufficientStorageCapacity", ml |-> ml, chunk |-> NoAccount]
    ELSE [err |-> reg.err, ml |-> reg.ml, chunk |-> fresh]

InitializeStorageChunk(signer, chunk_index, initial_capacity) ==
    LET acc == InitializeStorageChunkAccounts(signer, chunk_index)
        r == IF acc = "OK"
             THEN initialize_storage_chunk_handler(master_lockbox[signer], signer,
                      signer, chunk_index, initial_capacity)
             ELSE [err |-> acc, ml |-> master_lockbox[signer], chunk |-> NoAccount]
    IN /\ master_lockbox' = TxCommit(r.err, master_lockbox,
              [master_lockbox EXCEPT ![signer] = r.ml])
       /\ storage_chunk' = TxCommit(r.err, storage_chunk,
              [storage_chunk EXCEPT ![<<signer, chunk_index>>] = r.chunk])
       /\ result' = Result("initialize_storage_chunk", r.err, signer, signer,
                           chunk_index, initial_capacity, << >>)
       /\ UNCHANGED <<clock, stored_log, recoveryV1Vars, recoveryV2Vars>>

-----------------------------------------------------------------------------
(* instructions/password_entry.rs *)

\* #[derive(Accounts)] Store/Retrieve/Update/DeletePasswordEntry, applied to
\* the vault and chunk accounts the client names in the transaction (a vault
\* is named by the key its address derives from, a chunk by that key and its
\* index).  Both accounts are loaded, then the constraints of each are
\* checked in turn: the address must be the one the seeds derive from the
\* signer, and the recorded owner must be the signer.
\* Faulty variant: the accounts only have to exist.
EntryAccountsUnchecked(signer, vault, chunk, chunk_index) ==
    CASE master_lockbox[vault] = NoAccount -> "AccountNotInitialized"
      [] storage_chunk[chunk] = NoAccount -> "AccountNotInitialized"
      [] OTHER -> "OK"

EntryAccountsAt(signer, vault, chunk, chunk_index) ==
    CASE master_lockbox[vault] = NoAccount -> "AccountNotInitialized"
      [] storage_chunk[chunk] = NoAccount -> "AccountNotInitialized"
      [] vault # signer -> "ConstraintSeeds"
      [] master_lockbox[vault].owner # signer -> "Unauthorized"
      [] chunk # <<vault, chunk_index>> -> "ConstraintSeeds"
      [] storage_chunk[chunk].master_lockbox # vault -> "Unauthorized"
      [] storage_chunk[chunk].owner # signer -> "Unauthorized"
      [] OTHER -> "OK"

\* the same constraints for a client that names the derived addresses
EntryAccounts(signer, chunk_index) ==
    EntryAccountsAt(signer, signer, <<signer, chunk_index>>, chunk_index)

\* Faulty variant: every new header points at offset 0.
NewEntryHeaderAtZero(entry_id, chunk, data) ==
    [entry_id |-> entry_id, offset |-> 0, size |-> Len(data)]

NewEntryHeader(entry_id, chunk, data) ==
    [entry_id |-> entry_id, offset |-> chunk.current_size, size |-> Len(data)]

store_password_entry_handler(ml, chunk, data, now) ==
    IF ~is_subscription_active(ml, now)
    THEN [err |-> "SubscriptionExpired", ml |-> ml, chunk |-> chunk, id |-> 0]
    ELSE IF ~has_capacity(ml, Len(data))
    THEN [err |-> "InsufficientStorageCapacity", ml |-> ml, chunk |-> chunk, id |-> 0]
    ELSE IF available_space(chunk) < 0
    THEN [err |-> "Panic", ml |-> ml, chunk |-> chunk, id |-> 0]
    ELSE IF ~can_fit(chunk, Len(data))
    THEN [err |-> "InsufficientChunkCapacity", ml |-> ml, chunk |-> chunk, id |-> 0]
    ELSE
    LET n == get_next_entry_id(ml)
        a == add_entry(chunk, NewEntryHeader(n.id, chunk, data), data)
        u == update_chunk_usage(n.ml, a.chunk.chunk_index, a.chunk.current_size)
    IN IF a.err # "OK"
       THEN [err |-> a.err, ml |-> n.ml, chunk |-> a.chunk, id |-> n.id]
       ELSE IF u.err # "OK"
       THEN [err |-> u.err, ml |-> u.ml, chunk |-> a.chunk, id |-> n.id]
       ELSE [err |-> "OK", ml |-> increment_entries(u.ml), chunk |-> a.chunk,
             id |-> n.id]

StorePasswordEntryAt(signer, vault, chunk, chunk_index, data) ==
    LET acc == EntryAccountsAt(signer, vault, chunk, chunk_index)
        r == IF acc = "OK"
             THEN store_password_entry_handler(master_lockbox[vault],
                      storage_chunk[chunk], data, clock)
             ELSE [err |-> acc, ml |-> NoAccount, chunk |-> NoAccount, id |-> 0]
    IN /\ master_lockbox' = TxCommit(r.err, master_lockbox,
              [master_lockbox EXCEPT ![vault] = r.ml])
       /\ storage_chunk' = TxCommit(r.err, storage_chunk,
              [storage_chunk EXCEPT ![chunk] = r.chunk])
       /\ stored_log' = TxCommit(r.err, stored_log,
              [stored_log EXCEPT ![vault] = Append(@, r.id)])
       /\ result' = Result("store_password_entry", r.err, signer, <<vault, chunk>>,
                           chunk_index, r.id, data)
       /\ UNCHANGED <<clock, recoveryV1Vars, recoveryV2Vars>>

StorePasswordEntry(signer, chunk_index, data) ==
    StorePasswordEntryAt(signer, signer, <<signer, chunk_index>>, chunk_index, data)

retrieve_password_entry_handler(ml, chunk, entry_id, now) ==
    IF ~is_subscription_active(ml, now)
    THEN [err |-> "SubscriptionExpired", data |-> << >>]
    ELSE get_entry_data(chunk, entry_id)

RetrievePasswordEntryAt(signer, vault, chunk, chunk_index, entry_id) ==
    LET acc == EntryAccountsAt(signer, vault, chunk, chunk_index)
        r == IF acc = "OK"
             THEN retrieve_password_entry_handler(master_lockbox[vault],
                      storage_chunk[chunk], entry_id, clock)
             ELSE [err |-> acc, data |-> << >>]
    IN /\ result' = Result("retrieve_password_entry", r.err, signer, <<vault, chunk>>,
                           chunk_index, entry_id, r.data)
       /\ UNCHANGED <<clock, storageVars, recoveryV1Vars, recoveryV2Vars>>

RetrievePasswordEntry(signer, chunk_index, entry_id) ==
    RetrievePasswordEntryAt(signer, signer, <<signer, chunk_index>>, chunk_index, entry_id)

update_password_entry_handler(ml, chunk, entry_id, new_data, now) ==
    IF ~is_subscription_active(ml, now)
    THEN [err |-> "SubscriptionExpired", ml |-> ml, chunk |-> chunk]
    ELSE
    LET a == update_entry(chunk, entry_id, new_data)
        u == update_chunk_usage(ml, a.chunk.chunk_index, a.chunk.current_size)
    IN IF a.err # "OK" THEN [err |-> a.err, ml |-> ml, chunk |-> a.chunk]
       ELSE [err |-> u.err, ml |-> u.ml, chunk |-> a.chunk]

UpdatePasswordEntryAt(signer, vault, chunk, chunk_index, entry_id, new_data) ==
    LET acc == EntryAccountsAt(signer, vault, chunk, chunk_index)
        r == IF acc = "OK"
             THEN update_password_entry_handler(master_lockbox[vault],
                      storage_chunk[chunk], entry_id, new_data, clock)
             ELSE [err |-> acc, ml |-> NoAccount, chunk |-> NoAccount]
    IN /\ master_lockbox' = TxCommit(r.err, master_lockbox,
              [master_lockbox EXCEPT ![vault] = r.ml])
       /\ storage_chunk' = TxCommit(r.err, storage_chunk,
              [storage_chunk EXCEPT ![chunk] = r.chunk])
       /\ result' = Result("update_password_entry", r.err, signer, <<vault, chunk>>,
                           chunk_index, entry_id, new_data)
       /\ UNCHANGED <<clock, stored_log, recoveryV1Vars, recoveryV2Vars>>

UpdatePasswordEntry(signer, chunk_index, entry_id, new_data) ==
    UpdatePasswordEntryAt(signer, signer, <<signer, chunk_index>>, chunk_index, entry_id, new_data)

delete_password_entry_handler(ml, chunk, entry_id, now) ==
    IF ~is_subscription_active(ml, now)
    THEN [err |-> "SubscriptionExpired", ml |-> ml, chunk |-> chunk]
    ELSE
    LET a == delete_entry(chunk, entry_id)
        u == update_chunk_usage(ml, a.chunk.chunk_index, a.chunk.current_size)
    IN IF a.err # "OK" THEN [err |-> a.err, ml |-> ml, chunk |-> a.chunk]
       ELSE IF u.err # "OK" THEN [err |-> u.err, ml |-> u.ml, chunk |-> a.chunk]
       ELSE [err |-> "OK", ml |-> decrement_entries(u.ml), chunk |-> a.chunk]

DeletePasswordEntryAt(signer, vault, chunk, chunk_index, entry_id) ==
    LET acc == EntryAccountsAt(signer, vault, chunk, chunk_index)
        r == IF acc = "OK"
             THEN delete_password_entry_handler(master_lockbox[vault],
                      storage_chunk[chunk], entry_id, clock)
             ELSE [err |-> acc, ml |-> NoAccount, chunk |-> NoAccount]
    IN /\ master_lockbox' = TxCommit(r.err, master_lockbox,
              [master_lockbox EXCEPT ![vault] = r.ml])
       /\ storage_chunk' = TxCommit(r.err, storage_chunk,
              [storage_chunk EXCEPT ![chunk] = r.chunk])
       /\ result' = Result("delete_password_entry", r.err, signer, <<vault, chunk>>,
                           chunk_index, entry_id, << >>)
       /\ UNCHANGED <<clock, stored_log, recoveryV1Vars, recoveryV2Vars>>

DeletePasswordEntry(signer, chunk_index, entry_id) ==
    DeletePasswordEntryAt(signer, signer, <<signer, chunk_index>>, chunk_index, entry_id)

-----------------------------------------------------------------------------
(* instructions/chunk_management.rs *)

\* #[derive(Accounts)] ExpandChunk: the chunk's address is derived from the
\* vault and the chunk's own chunk_index field
ExpandChunkAccounts(signer, vault, chunk) ==
    CASE master_lockbox[vault] = NoAccount -> "AccountNotInitialized"
      [] storage_chunk[chunk] = NoAccount -> "AccountNotInitialized"
      [] vault # signer -> "ConstraintSeeds"
      [] master_lockbox[vault].owner # signer -> "Unauthorized"
      [] chunk # <<vault, storage_chunk[chunk].chunk_index>> -> "ConstraintSeeds"
      [] storage_chunk[chunk].master_lockbox # vault -> "ChunkNotFound"
      [] storage_chunk[chunk].owner # signer -> "Unauthorized"
      [] OTHER -> "OK"

\* Faulty variant: the per-chunk ceiling is not checked.
expand_chunk_handler_no_ceiling(ml, chunk, additional_size) ==
    LET new_capacity == chunk.max_capacity + additional_size
        pos == FindChunkInfo(ml, chunk.chunk_index)
    IN
    IF ~(additional_size > 0 /\ additional_size <= MAX_REALLOC_INCREMENT)
    THEN [err |-> "ReallocTooLarge", ml |-> ml, chunk |-> chunk]
    ELSE IF pos = 0
    THEN [err |-> "ChunkNotFound", ml |-> ml, chunk |-> chunk]
    ELSE [err |-> "OK",
          ml |-> [ml EXCEPT !.storage_chunks[pos].max_capacity = new_capacity,
                            !.total_capacity = @ + additional_size],
          chunk |-> [chunk EXCEPT !.max_capacity = new_capacity]]

expand_chunk_handler(ml, chunk, additional_size) ==
    LET new_capacity == chunk.max_capacity + additional_size
        pos == FindChunkInfo(ml, chunk.chunk_index)
        chunk1 == [chunk EXCEPT !.max_capacity = new_capacity]
    IN
    IF ~(new_capacity <= MAX_CHUNK_SIZE)
    THEN [err |-> "ChunkTooLarge", ml |-> ml, chunk |-> chunk]
    ELSE IF ~(additional_size > 0 /\ additional_size <= MAX_REALLOC_INCREMENT)
    THEN [err |-> "ReallocTooLarge", ml |-> ml, chunk |-> chunk]
    ELSE IF pos = 0
    THEN [err |-> "ChunkNotFound", ml |-> ml, chunk |-> chunk1]
    ELSE [err |-> "OK",
          ml |-> [ml EXCEPT !.storage_chunks[pos].max_capacity = new_capacity,
                            !.total_capacity = @ + additional_size],
          chunk |-> chunk1]

ExpandChunk(signer, vault, chunk, additional_size) ==
    LET acc == ExpandChunkAccounts(signer, vault, chunk)
        r == IF acc = "OK"
             THEN expand_chunk_handler(master_lockbox[vault], storage_chunk[chunk],
                      additional_size)
             ELSE [err |-> acc, ml |-> NoAccount, chunk |-> NoAccount]
    IN /\ master_lockbox' = TxCommit(r.err, master_lockbox,
              [master_lockbox EXCEPT ![vault] = r.ml])
       /\ storage_chunk' = TxCommit(r.err, storage_chunk,
              [storage_chunk EXCEPT ![chunk] = r.chunk])
       /\ result' = Result("expand_chunk", r.err, signer, <<vault, chunk>>,
                           IF acc = "OK" THEN storage_chunk[chunk].chunk_index ELSE 0,
                           additional_size, << >>)
       /\ UNCHANGED <<clock, stored_log, recoveryV1Vars, recoveryV2Vars>>

-----------------------------------------------------------------------------
(* instructions/close_account.rs *)

\* #[derive(Accounts)] CloseStorageChunk: the chunk at the address derived
\* from the signer's vault and chunk_index, and the signer's vault (read only)
CloseStorageChunkAccounts(signer, chunk_index) ==
    CASE storage_chunk[<<signer, chunk_index>>] = NoAccount -> "AccountNotInitialized"
      [] master_lockbox[signer] = NoAccount -> "AccountNotInitialized"
      [] master_lockbox[signer].owner # signer -> "Unauthorized"
      [] OTHER -> "OK"

\* close_storage_chunk_handler only logs; `close = owner` removes the chunk
\* account, and the vault is not written
CloseStorageChunk(signer, chunk_index) ==
    LET err == CloseStorageChunkAccounts(signer, chunk_index)
    IN /\ storage_chunk' = TxCommit(err, storage_chunk,
              [storage_chunk EXCEPT ![<<signer, chunk_index>>] = NoAccount])
       /\ result' = Result("close_storage_chunk", err, signer,
                           <<signer, <<signer, chunk_index>>>>, chunk_index, 0, << >>)
       /\ UNCHANGED <<clock, master_lockbox, stored_log, recoveryV1Vars, recoveryV2Vars>>

-----------------------------------------------------------------------------
(* instructions/subscription.rs *)

\* #[derive(Accounts)] UpgradeSubscription
VaultAccounts(signer) ==
    CASE master_lockbox[signer] = NoAccount -> "AccountNotInitialized"
      [] master_lockbox[signer].owner # signer -> "Unauthorized"
      [] OTHER -> "OK"

upgrade_subscription(ml, new_tier, now) ==
    IF ~can_upgrade_to(ml.subscription_tier, new_tier)
    THEN [err |-> "InvalidTierUpgrade", ml |-> ml]
    ELSE [err |-> "OK",
          ml |-> [ml EXCEPT !.subscription_tier = new_tier,
                            !.subscription_expires =
                                IF new_tier # "Free"
                                THEN now + SUBSCRIPTION_DURATION ELSE @]]

UpgradeSubscription(signer, new_tier) ==
    LET acc == VaultAccounts(signer)
        r == IF acc = "OK" THEN upgrade_subscription(master_lockbox[signer], new_tier, clock)
             ELSE [err |-> acc, ml |-> NoAccount]
    IN /\ master_lockbox' = TxCommit(r.err, master_lockbox,
              [master_lockbox EXCEPT ![signer] = r.ml])
       /\ result' = Result("upgrade_subscription", r.err, signer, signer, 0, 0, << >>)
       /\ UNCHANGED <<clock, storage_chunk, stored_log, recoveryV1Vars, recoveryV2Vars>>

-----------------------------------------------------------------------------
(* state/recovery.rs *)

\* never called by an instruction
validate_threshold(cfg) ==
    /\ cfg.threshold > 0
    /\ cfg.threshold <= Len(cfg.guardians)
    /\ cfg.threshold <= MAX_GUARDIANS

\* position of the first guardian with this key, 0 if none
get_guardian(cfg, pubkey) ==
    LET S == {i \in 1..Len(cfg.guardians) : cfg.guardians[i].guardian_pubkey = pubkey}
    IN IF S = {} THEN 0 ELSE CHOOSE i \in S : \A j \in S : i <= j

is_active_guardian(cfg, pubkey) ==
    \E i \in 1..Len(cfg.guardians) :
        /\ cfg.guardians[i].guardian_pubkey = pubkey
        /\ cfg.guardians[i].status = "Active"

\* Faulty variant: the delay is not compared with the clock.
is_ready_at_once(req, current_time) == req.status = "Pending"

is_ready(req, current_time) ==
    current_time >= req.ready_at /\ req.status = "Pending"

has_sufficient_approvals(req, threshold) == Len(req.approvals) >= threshold

\* Faulty variant: earlier approvals are not looked at.
has_guardian_approved_never(req, guardian) == FALSE

has_guardian_approved(req, guardian) ==
    \E i \in 1..Len(req.approvals) : req.approvals[i].guardian = guardian

\* Faulty variant: the designated owner is ignored.
unwrap_or_requester(opt, default) == default

\* Option<Pubkey>::unwrap_or
unwrap_or(opt, default) == IF opt = "None" THEN default ELSE opt

\* outcome of a recovery instruction: the config and request accounts it was
\* handed are named by their seeds (config: owner key; request: <<owner, id>>)
RecoveryResult(op, err, signer, config, request, args) ==
    [op |-> op, err |-> err, signer |-> signer, config |-> config,
     request |-> request, args |-> args]

-----------------------------------------------------------------------------
(* instructions/recovery_management.rs: share-submission recovery (V1) *)

\* #[derive(Accounts)] InitializeRecoveryConfig
InitializeRecoveryConfigAccounts(signer) ==
    CASE recovery_config[signer] # NoAccount -> "AccountAlreadyInUse"
      [] master_lockbox[signer] = NoAccount -> "AccountNotInitialized"
      [] master_lockbox[signer].owner # signer -> "Unauthorized"
      [] OTHER -> "OK"

initialize_recovery_config_handler(ml, owner, threshold, recovery_delay) ==
    IF ~(ml.subscription_tier \in {"Premium", "Enterprise"})
    THEN [err |-> "FeatureNotAvailable", cfg |-> NoAccount]
    ELSE IF ~(threshold > 0 /\ threshold <= MAX_GUARDIANS)
    THEN [err |-> "InvalidThreshold", cfg |-> NoAccount]
    ELSE IF ~(recovery_delay >= MIN_RECOVERY_DELAY /\ recovery_delay <= MAX_RECOVERY_DELAY)
    THEN [err |-> "InvalidRecoveryDelay", cfg |-> NoAccount]
    ELSE [err |-> "OK",
          cfg |-> [owner |-> owner,
                   threshold |-> threshold,
                   total_guardians |-> 0,
                   guardians |-> << >>,
                   recovery_delay |-> recovery_delay,
                   last_request_id |-> 0]]

InitializeRecoveryConfig(signer, threshold, recovery_delay) ==
    LET acc == InitializeRecoveryConfigAccounts(signer)
        r == IF acc = "OK"
             THEN initialize_recovery_config_handler(master_lockbox[signer], signer,
                      threshold, recovery_delay)
             ELSE [err |-> acc, cfg |-> NoAccount]
    IN /\ recovery_config' = TxCommit(r.err, recovery_config,
              [recovery_config EXCEPT ![signer] = r.cfg])
       /\ result' = RecoveryResult("initialize_recovery_config", r.err, signer, signer,
                                   << >>, <<threshold, recovery_delay>>)
       /\ UNCHANGED <<clock, storageVars, recovery_request, recoveryV2Vars>>

\* #[derive(Accounts)] AddGuardian, RemoveGuardian, CancelRecovery: the config
\* is the one derived from the signer's key
OwnerConfigAccounts(signer) ==
    CASE recovery_config[signer] = NoAccount -> "AccountNotInitialized"
      [] recovery_config[signer].owner # signer -> "Unauthorized"
      [] OTHER -> "OK"

\* Faulty variant: the share index is not compared with those in the registry.
add_guardian_handler_any_index(cfg, signer, guardian_pubkey, share_index, encrypted_share) ==
    IF ~(cfg.owner = signer)
    THEN [err |-> "Unauthorized", cfg |-> cfg]
    ELSE IF ~(Len(cfg.guardians) < MAX_GUARDIANS)
    THEN [err |-> "TooManyGuardians", cfg |-> cfg]
    ELSE IF \E i \in 1..Len(cfg.guardians) :
               cfg.guardians[i].guardian_pubkey = guardian_pubkey
    THEN [err |-> "GuardianAlreadyExists", cfg |-> cfg]
    ELSE [err |-> "OK",
          cfg |-> [cfg EXCEPT
              !.guardians = Append(@, [guardian_pubkey |-> guardian_pubkey,
                                       share_index |-> share_index,
                                       encrypted_share |-> encrypted_share,
                                       status |-> "PendingAcceptance"]),
              !.total_guardians = Len(cfg.guardians) + 1]]

add_guardian_handler(cfg, signer, guardian_pubkey, share_index, encrypted_share) ==
    IF ~(cfg.owner = signer)
    THEN [err |-> "Unauthorized", cfg |-> cfg]
    ELSE IF ~(Len(cfg.guardians) < MAX_GUARDIANS)
    THEN [err |-> "TooManyGuardians", cfg |-> cfg]
    ELSE IF \E i \in 1..Len(cfg.guardians) :
               cfg.guardians[i].guardian_pubkey = guardian_pubkey
    THEN [err |-> "GuardianAlreadyExists", cfg |-> cfg]
    ELSE IF ~(share_index > 0 /\ share_index <= U8_MAX)
    THEN [err |-> "InvalidShareIndex", cfg |-> cfg]
    ELSE IF \E i \in 1..Len(cfg.guardians) : cfg.guardians[i].share_index = share_index
    THEN [err |-> "DuplicateShareIndex", cfg |-> cfg]
    ELSE IF ~(Len(encrypted_share) <= 128)
    THEN [err |-> "InvalidShareSize", cfg |-> cfg]
    ELSE [err |-> "OK",
          cfg |-> [cfg EXCEPT
              !.guardians = Append(@, [guardian_pubkey |-> guardian_pubkey,
                                       share_index |-> share_index,
                                       encrypted_share |-> encrypted_share,
                                       status |-> "PendingAcceptance"]),
              !.total_guardians = Len(cfg.guardians) + 1]]

AddGuardian(signer, guardian_pubkey, share_index, encrypted_share) ==
    LET acc == OwnerConfigAccounts(signer)
        r == IF acc = "OK"
             THEN add_guardian_handler(recovery_config[signer], signer, guardian_pubkey,
                      share_index, encrypted_share)
             ELSE [err |-> acc, cfg |-> NoAccount]
    IN /\ recovery_config' = TxCommit(r.err, recovery_config,
              [recovery_config EXCEPT ![signer] = r.cfg])
       /\ result' = RecoveryResult("add_guardian", r.err, signer, signer, << >>,
                                   <<guardian_pubkey, share_index>>)
       /\ UNCHANGED <<clock, storageVars, recovery_request, recoveryV2Vars>>

accept_guardianship_handler(cfg, guardian_pubkey) ==
    LET pos == get_guardian(cfg, guardian_pubkey) IN
    IF pos = 0 THEN [err |-> "GuardianNotFound", cfg |-> cfg]
    ELSE IF ~(cfg.guardians[pos].status = "PendingAcceptance")
    THEN [err |-> "GuardianAlreadyAccepted", cfg |-> cfg]
    ELSE [err |-> "OK", cfg |-> [cfg EXCEPT !.guardians[pos].status = "Active"]]

\* #[derive(Accounts)] AcceptGuardianship: any RecoveryConfig account
AcceptGuardianship(signer, config) ==
    LET r == IF recovery_config[config] = NoAccount
             THEN [err |-> "AccountNotInitialized", cfg |-> NoAccount]
             ELSE accept_guardianship_handler(recovery_config[config], signer)
    IN /\ recovery_config' = TxCommit(r.err, recovery_config,
              [recovery_config EXCEPT ![config] = r.cfg])
       /\ result' = RecoveryResult("accept_guardianship", r.err, signer, config, << >>, << >>)
       /\ UNCHANGED <<clock, storageVars, recovery_request, recoveryV2Vars>>

\* Faulty variant: the remaining guardians are not compared with the threshold.
enough_guardians_always(cfg) == TRUE

\* require!(remaining_guardians as u8 >= recovery_config.threshold)
enough_guardians_remain(cfg) ==
    LET remaining_guardians == Len(cfg.guardians) - 1
    IN (remaining_guardians % (U8_MAX + 1)) >= cfg.threshold

remove_guardian_handler(cfg, signer, guardian_pubkey) ==
    LET guardian_index == get_guardian(cfg, guardian_pubkey) IN
    IF ~(cfg.owner = signer)
    THEN [err |-> "Unauthorized", cfg |-> cfg]
    ELSE IF guardian_index = 0
    THEN [err |-> "GuardianNotFound", cfg |-> cfg]
    ELSE IF ~enough_guardians_remain(cfg)
    THEN [err |-> "InsufficientGuardians", cfg |-> cfg]
    ELSE [err |-> "OK",
          cfg |-> [cfg EXCEPT !.guardians = RemoveAt(@, guardian_index),
                              !.total_guardians = Len(cfg.guardians) - 1]]

RemoveGuardian(signer, guardian_pubkey) ==
    LET acc == OwnerConfigAccounts(signer)
        r == IF acc = "OK"
             THEN remove_guardian_handler(recovery_config[signer], signer, guardian_pubkey)
             ELSE [err |-> acc, cfg |-> NoAccount]
    IN /\ recovery_config' = TxCommit(r.err, recovery_config,
              [recovery_config EXCEPT ![signer] = r.cfg])
       /\ result' = RecoveryResult("remove_guardian", r.err, signer, signer, << >>,
                                   <<guardian_pubkey>>)
       /\ UNCHANGED <<clock, storageVars, recovery_request, recoveryV2Vars>>

\* Faulty variant: any client-supplied request id is taken.
request_id_any(cfg, request_id) == TRUE

\* require!(request_id > recovery_config.last_request_id)
request_id_is_fresh(cfg, request_id) == request_id > cfg.last_request_id

initiate_recovery_handler(cfg, requester, request_id, new_owner, now) ==
    IF ~is_active_guardian(cfg, requester)
    THEN [err |-> "NotActiveGuardian", cfg |-> cfg, req |-> NoAccount]
    ELSE IF ~request_id_is_fresh(cfg, request_id)
    THEN [err |-> "InvalidThreshold", cfg |-> cfg, req |-> NoAccount]
    ELSE [err |-> "OK",
          cfg |-> [cfg EXCEPT !.last_request_id = request_id],
          req |-> [owner |-> cfg.owner,
                   requester |-> requester,
                   request_id |-> request_id,
                   requested_at |-> now,
                   ready_at |-> now + cfg.recovery_delay,
                   expires_at |-> now + cfg.recovery_delay + RECOVERY_EXPIRATION_PERIOD,
                   approvals |-> << >>,
                   new_owner |-> new_owner,
                   status |-> "Pending"]]

\* #[derive(Accounts)] InitiateRecovery: the request is created at the address
\* derived from the config's owner and the client-supplied request_id
InitiateRecoveryAccounts(config, request_id) ==
    CASE recovery_config[config] = NoAccount -> "AccountNotInitialized"
      [] recovery_request[<<recovery_config[config].owner, request_id>>] # NoAccount
            -> "AccountAlreadyInUse"
      [] OTHER -> "OK"

InitiateRecovery(signer, config, request_id, new_owner) ==
    LET acc == InitiateRecoveryAccounts(config, request_id)
        r == IF acc = "OK"
             THEN initiate_recovery_handler(recovery_config[config], signer, request_id,
                      new_owner, clock)
             ELSE [err |-> acc, cfg |-> NoAccount, req |-> NoAccount]
    IN /\ recovery_config' = TxCommit(r.err, recovery_config,
              [recovery_config EXCEPT ![config] = r.cfg])
       /\ recovery_request' = TxCommit(r.err, recovery_request,
              [recovery_request EXCEPT ![<<config, request_id>>] = r.req])
       /\ result' = RecoveryResult("initiate_recovery", r.err, signer, config,
                                   <<config, request_id>>, <<new_owner>>)
       /\ UNCHANGED <<clock, storageVars, recoveryV2Vars>>

approve_recovery_handler(cfg, req, guardian_pubkey, share_decrypted, now) ==
    LET pos == get_guardian(cfg, guardian_pubkey)
        req1 == [req EXCEPT !.approvals =
                    Append(@, [guardian |-> guardian_pubkey,
                               share_index |-> cfg.guardians[pos].share_index,
                               share_decrypted |-> share_decrypted])]
    IN
    IF ~is_active_guardian(cfg, guardian_pubkey)
    THEN [err |-> "NotActiveGuardian", req |-> req]
    ELSE IF ~is_ready(req, now)
    THEN [err |-> "RecoveryNotReady", req |-> req]
    ELSE IF ~(now <= req.expires_at)
    THEN [err |-> "RecoveryExpired", req |-> req]
    ELSE IF has_guardian_approved(req, guardian_pubkey)
    THEN [err |-> "GuardianAlreadyApproved", req |-> req]
    ELSE IF pos = 0
    THEN [err |-> "GuardianNotFound", req |-> req]
    ELSE [err |-> "OK",
          req |-> IF has_sufficient_approvals(req1, cfg.threshold)
                  THEN [req1 EXCEPT !.status = "ReadyForReconstruction"]
                  ELSE req1]

\* #[derive(Accounts)] ApproveRecovery, CompleteRecovery: any RecoveryConfig
\* account together with any RecoveryRequest account
ConfigRequestAccounts(config, request) ==
    CASE recovery_config[config] = NoAccount -> "AccountNotInitialized"
      [] recovery_request[request] = NoAccount -> "AccountNotInitialized"
      [] OTHER -> "OK"

ApproveRecovery(signer, config, request, share_decrypted) ==
    LET acc == ConfigRequestAccounts(config, request)
        r == IF acc = "OK"
             THEN approve_recovery_handler(recovery_config[config],
                      recovery_request[request], signer, share_decrypted, clock)
             ELSE [err |-> acc, req |-> NoAccount]
    IN /\ recovery_request' = TxCommit(r.err, recovery_request,
              [recovery_request EXCEPT ![request] = r.req])
       /\ result' = RecoveryResult("approve_recovery", r.err, signer, config, request,
                                   <<share_decrypted>>)
       /\ UNCHANGED <<clock, storageVars, recovery_config, recoveryV2Vars>>

complete_recovery_handler(cfg, req, ml) ==
    IF ~has_sufficient_approvals(req, cfg.threshold)
    THEN [err |-> "InsufficientApprovals", req |-> req, ml |-> ml]
    ELSE IF ~(req.status = "ReadyForReconstruction")
    THEN [err |-> "RecoveryNotReady", req |-> req, ml |-> ml]
    ELSE [err |-> "OK",
          req |-> [req EXCEPT !.status = "Completed"],
          ml |-> [ml EXCEPT !.owner = unwrap_or(req.new_owner, req.requester)]]

\* #[derive(Accounts)] CompleteRecovery: the vault is the one derived from the
\* config's owner; no signer is required beyond the fee payer
CompleteRecoveryAccounts(config, request) ==
    CASE ConfigRequestAccounts(config, request) # "OK"
            -> ConfigRequestAccounts(config, request)
      [] master_lockbox[recovery_config[config].owner] = NoAccount
            -> "AccountNotInitialized"
      [] OTHER -> "OK"

CompleteRecovery(signer, config, request) ==
    LET acc == CompleteRecoveryAccounts(config, request)
        r == IF acc = "OK"
             THEN complete_recovery_handler(recovery_config[config],
                      recovery_request[request], master_lockbox[config])
             ELSE [err |-> acc, req |-> NoAccount, ml |-> NoAccount]
    IN /\ recovery_request' = TxCommit(r.err, recovery_request,
              [recovery_request EXCEPT ![request] = r.req])
       /\ master_lockbox' = TxCommit(r.err, master_lockbox,
              [master_lockbox EXCEPT ![config] = r.ml])
       /\ result' = RecoveryResult("complete_recovery", r.err, signer, config, request,
                                   << >>)
       /\ UNCHANGED <<clock, storage_chunk, stored_log, recovery_config, recoveryV2Vars>>

\* Faulty variant: a Completed session can be cancelled too.
cancel_recovery_handler_any_status(cfg, req, signer) ==
    IF ~(cfg.owner = signer)
    THEN [err |-> "Unauthorized", req |-> req]
    ELSE [err |-> "OK", req |-> [req EXCEPT !.status = "Cancelled"]]

cancel_recovery_handler(cfg, req, signer) ==
    IF ~(cfg.owner = signer)
    THEN [err |-> "Unauthorized", req |-> req]
    ELSE IF ~(req.status # "Completed")
    THEN [err |-> "RecoveryAlreadyCompleted", req |-> req]
    ELSE [err |-> "OK", req |-> [req EXCEPT !.status = "Cancelled"]]

\* #[derive(Accounts)] CancelRecovery: the signer's config, any request
CancelRecovery(signer, request) ==
    LET acc == IF OwnerConfigAccounts(signer) # "OK" THEN OwnerConfigAccounts(signer)
               ELSE IF recovery_request[request] = NoAccount
               THEN "AccountNotInitialized" ELSE "OK"
        r == IF acc = "OK"
             THEN cancel_recovery_handler(recovery_config[signer],
                      recovery_request[request], signer)
             ELSE [err |-> acc, req |-> NoAccount]
    IN /\ recovery_request' = TxCommit(r.err, recovery_request,
              [recovery_request EXCEPT ![request] = r.req])
       /\ result' = RecoveryResult("cancel_recovery", r.err, signer, signer, request,
                                   << >>)
       /\ UNCHANGED <<clock, storageVars, recovery_config, recoveryV2Vars>>

-----------------------------------------------------------------------------
(* state/recovery_v2.rs *)

\* solana_program::hash::hash on 32-byte values, which the model draws from
\* Digests: a one-way map that is not the identity and has one collision
\* (hash(0) = hash(4)).
Digests == 0..4
hash(x) == (3 * x + 1) % 4

has_sufficient_participants(req, threshold) ==
    Len(req.participating_guardians) >= threshold

has_guardian_confirmed(req, guardian) ==
    \E i \in 1..Len(req.participating_guardians) : req.participating_guardians[i] = guardian

\* Faulty variant: the window excludes its two end points.
is_ready_for_proof_open(req, current_time) ==
    /\ current_time > req.ready_at
    /\ current_time < req.expires_at
    /\ req.status = "ReadyForReconstruction"

is_ready_for_proof(req, current_time) ==
    /\ current_time >= req.ready_at
    /\ current_time <= req.expires_at
    /\ req.status = "ReadyForReconstruction"

is_active_guardian_v2(cfg, pubkey) ==
    \E i \in 1..Len(cfg.guardians) :
        /\ cfg.guardians[i].guardian_pubkey = pubkey
        /\ cfg.guardians[i].status = "Active"

\* Faulty variant: the cooldown has to be exceeded.
check_recovery_rate_limit_strict(cfg, current_time, cooldown_seconds) ==
    IF cfg.last_recovery_attempt = 0 THEN TRUE
    ELSE current_time - cfg.last_recovery_attempt > cooldown_seconds

check_recovery_rate_limit(cfg, current_time, cooldown_seconds) ==
    IF cfg.last_recovery_attempt = 0 THEN TRUE
    ELSE current_time - cfg.last_recovery_attempt >= cooldown_seconds

-----------------------------------------------------------------------------
(* instructions/recovery_management_v2.rs: challenge recovery (V2) *)

\* #[derive(Accounts)] InitializeRecoveryConfigV2
InitializeRecoveryConfigV2Accounts(signer) ==
    CASE recovery_config_v2[signer] # NoAccount -> "AccountAlreadyInUse"
      [] master_lockbox[signer] = NoAccount -> "AccountNotInitialized"
      [] master_lockbox[signer].owner # signer -> "Unauthorized"
      [] OTHER -> "OK"

\* last_recovery_attempt is not assigned: a created account is zero-filled
initialize_recovery_config_v2_handler(ml, owner, threshold, recovery_delay, master_secret_hash) ==
    IF ~(ml.subscription_tier \in {"Premium", "Pro"})
    THEN [err |-> "FeatureNotAvailable", cfg |-> NoAccount]
    ELSE IF ~(threshold > 0 /\ threshold <= MAX_GUARDIANS)
    THEN [err |-> "InvalidThreshold", cfg |-> NoAccount]
    ELSE IF ~(recovery_delay >= MIN_RECOVERY_DELAY /\ recovery_delay <= MAX_RECOVERY_DELAY)
    THEN [err |-> "InvalidRecoveryDelay", cfg |-> NoAccount]
    ELSE [err |-> "OK",
          cfg |-> [owner |-> owner,
                   threshold |-> threshold,
                   total_guardians |-> 0,
                   guardians |-> << >>,
                   recovery_delay |-> recovery_delay,
                   last_request_id |-> 0,
                   master_secret_hash |-> master_secret_hash,
                   last_recovery_attempt |-> 0]]

InitializeRecoveryConfigV2(signer, threshold, recovery_delay, master_secret_hash) ==
    LET acc == InitializeRecoveryConfigV2Accounts(signer)
        r == IF acc = "OK"
             THEN initialize_recovery_config_v2_handler(master_lockbox[signer], signer,
                      threshold, recovery_delay, master_secret_hash)
             ELSE [err |-> acc, cfg |-> NoAccount]
    IN /\ recovery_config_v2' = TxCommit(r.err, recovery_config_v2,
              [recovery_config_v2 EXCEPT ![signer] = r.cfg])
       /\ result' = RecoveryResult("initialize_recovery_config_v2", r.err, signer, signer,
                                   << >>, <<threshold, recovery_delay>>)
       /\ UNCHANGED <<clock, storageVars, recoveryV1Vars, recovery_request_v2>>

\* #[derive(Accounts)] AddGuardianV2
OwnerConfigV2Accounts(signer) ==
    CASE recovery_config_v2[signer] = NoAccount -> "AccountNotInitialized"
      [] recovery_config_v2[signer].owner # signer -> "Unauthorized"
      [] OTHER -> "OK"

add_guardian_v2_handler(cfg, signer, guardian_pubkey, share_index, share_commitment) ==
    IF ~(cfg.owner = signer)
    THEN [err |-> "Unauthorized", cfg |-> cfg]
    ELSE IF ~(Len(cfg.guardians) < MAX_GUARDIANS)
    THEN [err |-> "TooManyGuardians", cfg |-> cfg]
    ELSE IF \E i \in 1..Len(cfg.guardians) :
               cfg.guardians[i].guardian_pubkey = guardian_pubkey
    THEN [err |-> "GuardianAlreadyExists", cfg |-> cfg]
    ELSE IF ~(share_index > 0 /\ share_index <= U8_MAX)
    THEN [err |-> "InvalidShareIndex", cfg |-> cfg]
    ELSE IF \E i \in 1..Len(cfg.guardians) : cfg.guardians[i].share_index = share_index
    THEN [err |-> "DuplicateShareIndex", cfg |-> cfg]
    ELSE [err |-> "OK",
          cfg |-> [cfg EXCEPT
              !.guardians = Append(@, [guardian_pubkey |-> guardian_pubkey,
                                       share_index |-> share_index,
                                       share_commitment |-> share_commitment,
                                       status |-> "PendingAcceptance"]),
              !.total_guardians = Len(cfg.guardians) + 1]]

AddGuardianV2(signer, guardian_pubkey, share_index, share_commitment) ==
    LET acc == OwnerConfigV2Accounts(signer)
        r == IF acc = "OK"
             THEN add_guardian_v2_handler(recovery_config_v2[signer], signer,
                      guardian_pubkey, share_index, share_commitment)
             ELSE [err |-> acc, cfg |-> NoAccount]
    IN /\ recovery_config_v2' = TxCommit(r.err, recovery_config_v2,
              [recovery_config_v2 EXCEPT ![signer] = r.cfg])
       /\ result' = RecoveryResult("add_guardian_v2", r.err, signer, signer, << >>,
                                   <<guardian_pubkey, share_index>>)
       /\ UNCHANGED <<clock, storageVars, recoveryV1Vars, recovery_request_v2>>

\* The V2 file has no acceptance handler of its own ("Setup Phase (Same as
\* V1)"): accept_guardianship_handler, applied to the V2 guardian list.
AcceptGuardianshipV2(signer, config) ==
    LET r == IF recovery_config_v2[config] = NoAccount
             THEN [err |-> "AccountNotInitialized", cfg |-> NoAccount]
             ELSE accept_guardianship_handler(recovery_config_v2[config], signer)
    IN /\ recovery_config_v2' = TxCommit(r.err, recovery_config_v2,
              [recovery_config_v2 EXCEPT ![config] = r.cfg])
       /\ result' = RecoveryResult("accept_guardianship_v2", r.err, signer, config,
                                   << >>, << >>)
       /\ UNCHANGED <<clock, storageVars, recoveryV1Vars, recovery_request_v2>>

\* the handler's writes are kept in cfg even where a later require! fails
initiate_recovery_v2_handler(cfg, requester, encrypted_challenge, challenge_hash, new_owner, now) ==
    LET request_id == cfg.last_request_id + 1
        cfg1 == [cfg EXCEPT !.last_request_id = request_id,
                            !.last_recovery_attempt = now]
    IN
    IF ~is_active_guardian_v2(cfg, requester)
    THEN [err |-> "NotActiveGuardian", cfg |-> cfg, req |-> NoAccount]
    ELSE IF ~check_recovery_rate_limit(cfg, now, RECOVERY_COOLDOWN)
    THEN [err |-> "RecoveryRateLimitExceeded", cfg |-> cfg, req |-> NoAccount]
    ELSE IF ~(Len(encrypted_challenge) = CHALLENGE_LEN)
    THEN [err |-> "InvalidDataSize", cfg |-> cfg1, req |-> NoAccount]
    ELSE [err |-> "OK",
          cfg |-> cfg1,
          req |-> [owner |-> cfg.owner,
                   requester |-> requester,
                   request_id |-> request_id,
                   requested_at |-> now,
                   ready_at |-> now + cfg.recovery_delay,
                   expires_at |-> now + cfg.recovery_delay + RECOVERY_EXPIRATION_PERIOD,
                   challenge |-> [encrypted_challenge |-> encrypted_challenge,
                                  challenge_hash |-> challenge_hash],
                   participating_guardians |-> << >>,
                   new_owner |-> new_owner,
                   status |-> "Pending"]]

\* #[derive(Accounts)] InitiateRecoveryV2: the request is created at the
\* address derived from the config's owner and last_request_id + 1
InitiateRecoveryV2Accounts(config) ==
    CASE recovery_config_v2[config] = NoAccount -> "AccountNotInitialized"
      [] recovery_request_v2[<<recovery_config_v2[config].owner,
                               recovery_config_v2[config].last_request_id + 1>>]
            # NoAccount -> "AccountAlreadyInUse"
      [] OTHER -> "OK"

\* Faulty variant: the request account the client names is taken as it is.
RequestV2AccountsUnchecked(config, request) ==
    IF recovery_config_v2[config] = NoAccount THEN "AccountNotInitialized" ELSE "OK"

\* the same constraints applied to the request account the client names in the
\* transaction: its address must be the one the seeds derive
RequestV2Accounts(config, request) ==
    CASE recovery_config_v2[config] = NoAccount -> "AccountNotInitialized"
      [] request # <<recovery_config_v2[config].owner,
                     recovery_config_v2[config].last_request_id + 1>> -> "ConstraintSeeds"
      [] OTHER -> InitiateRecoveryV2Accounts(config)

\* initiate_recovery_v2 with the request account named by the client
InitiateRecoveryV2At(signer, config, request, encrypted_challenge, challenge_hash, new_owner) ==
    LET acc == RequestV2Accounts(config, request)
        r == IF acc = "OK"
             THEN initiate_recovery_v2_handler(recovery_config_v2[config], signer,
                      encrypted_challenge, challenge_hash, new_owner, clock)
             ELSE [err |-> acc, cfg |-> NoAccount, req |-> NoAccount]
    IN /\ recovery_config_v2' = TxCommit(r.err, recovery_config_v2,
              [recovery_config_v2 EXCEPT ![config] = r.cfg])
       /\ recovery_request_v2' = TxCommit(r.err, recovery_request_v2,
              [recovery_request_v2 EXCEPT ![request] = r.req])
       /\ result' = RecoveryResult("initiate_recovery_v2", r.err, signer, config, request,
                                   <<Len(encrypted_challenge), challenge_hash, new_owner>>)
       /\ UNCHANGED <<clock, storageVars, recoveryV1Vars>>

\* initiate_recovery_v2 by a client that names the derived address
InitiateRecoveryV2(signer, config, encrypted_challenge, challenge_hash, new_owner) ==
    InitiateRecoveryV2At(signer, config,
        IF recovery_config_v2[config] = NoAccount THEN << >>
        ELSE <<config, recovery_config_v2[config].last_request_id + 1>>,
        encrypted_challenge, challenge_hash, new_owner)

confirm_participation_handler(cfg, req, guardian_pubkey, now) ==
    LET req1 == [req EXCEPT !.participating_guardians = Append(@, guardian_pubkey)] IN
    IF ~is_active_guardian_v2(cfg, guardian_pubkey)
    THEN [err |-> "NotActiveGuardian", req |-> req]
    ELSE IF ~is_ready_for_proof(req, now)
    THEN [err |-> "RecoveryNotReady", req |-> req]
    ELSE IF has_guardian_confirmed(req, guardian_pubkey)
    THEN [err |-> "GuardianAlreadyApproved", req |-> req]
    ELSE [err |-> "OK",
          req |-> IF has_sufficient_participants(req1, cfg.threshold)
                  THEN [req1 EXCEPT !.status = "ReadyForReconstruction"]
                  ELSE req1]

\* #[derive(Accounts)] ConfirmParticipation, CompleteRecoveryV2: any
\* RecoveryConfigV2 account together with any RecoveryRequestV2 account
ConfigRequestV2Accounts(config, request) ==
    CASE recovery_config_v2[config] = NoAccount -> "AccountNotInitialized"
      [] recovery_request_v2[request] = NoAccount -> "AccountNotInitialized"
      [] OTHER -> "OK"

ConfirmParticipation(signer, config, request) ==
    LET acc == ConfigRequestV2Accounts(config, request)
        r == IF acc = "OK"
             THEN confirm_participation_handler(recovery_config_v2[config],
                      recovery_request_v2[request], signer, clock)
             ELSE [err |-> acc, req |-> NoAccount]
    IN /\ recovery_request_v2' = TxCommit(r.err, recovery_request_v2,
              [recovery_request_v2 EXCEPT ![request] = r.req])
       /\ result' = RecoveryResult("confirm_participation", r.err, signer, config, request,
                                   << >>)
       /\ UNCHANGED <<clock, storageVars, recoveryV1Vars, recovery_config_v2>>

\* Faulty variant: the challenge plaintext is not compared with the commitment.
proof_always_matches(req, challenge_plaintext) == TRUE

\* plaintext_hash.to_bytes() == recovery_request.challenge.challenge_hash
proof_matches(req, challenge_plaintext) ==
    hash(challenge_plaintext) = req.challenge.challenge_hash

complete_recovery_with_proof_handler(cfg, req, ml, challenge_plaintext, master_secret, now) ==
    IF ~has_sufficient_participants(req, cfg.threshold)
    THEN [err |-> "InsufficientApprovals", req |-> req, ml |-> ml]
    ELSE IF ~(req.status = "ReadyForReconstruction")
    THEN [err |-> "RecoveryNotReady", req |-> req, ml |-> ml]
    ELSE IF ~(now <= req.expires_at)
    THEN [err |-> "RecoveryExpired", req |-> req, ml |-> ml]
    ELSE IF ~(hash(master_secret) = cfg.master_secret_hash)
    THEN [err |-> "InvalidMasterSecret", req |-> req, ml |-> ml]
    ELSE IF ~proof_matches(req, challenge_plaintext)
    THEN [err |-> "InvalidProof", req |-> req, ml |-> ml]
    ELSE [err |-> "OK",
          req |-> [req EXCEPT !.status = "Completed"],
          ml |-> [ml EXCEPT !.owner = unwrap_or(req.new_owner, req.requester)]]

\* #[derive(Accounts)] CompleteRecoveryV2: the vault is the one derived from
\* the config's owner; the requester is any signer
CompleteRecoveryV2Accounts(config, request) ==
    CASE ConfigRequestV2Accounts(config, request) # "OK"
            -> ConfigRequestV2Accounts(config, request)
      [] master_lockbox[recovery_config_v2[config].owner] = NoAccount
            -> "AccountNotInitialized"
      [] OTHER -> "OK"

CompleteRecoveryV2(signer, config, request, challenge_plaintext, master_secret) ==
    LET acc == CompleteRecoveryV2Accounts(config, request)
        r == IF acc = "OK"
             THEN complete_recovery_with_proof_handler(recovery_config_v2[config],
                      recovery_request_v2[request], master_lockbox[config],
                      challenge_plaintext, master_secret, clock)
             ELSE [err |-> acc, req |-> NoAccount, ml |-> NoAccount]
    IN /\ recovery_request_v2' = TxCommit(r.err, recovery_request_v2,
              [recovery_request_v2 EXCEPT ![request] = r.req])
       /\ master_lockbox' = TxCommit(r.err, master_lockbox,
              [master_lockbox EXCEPT ![config] = r.ml])
       /\ result' = RecoveryResult("complete_recovery_with_proof", r.err, signer, config,
                                   request, <<challenge_plaintext, master_secret>>)
       /\ UNCHANGED <<clock, storage_chunk, stored_log, recoveryV1Vars, recovery_config_v2>>

-----------------------------------------------------------------------------
(* The clock oracle: monotonic, read once per instruction *)

Tick(points) ==
    /\ \E t \in points : t > clock /\ clock' = t
    /\ result' = [op |-> "tick", err |-> "OK"]
    /\ UNCHANGED <<storageVars, recoveryV1Vars, recoveryV2Vars>>

-----------------------------------------------------------------------------
(* Initial state: no account exists *)

RequestIds == 1..(MaxRequestId + 1)

Init ==
    /\ clock = 0
    /\ master_lockbox = [k \in Owners |-> NoAccount]
    /\ storage_chunk = [p \in Owners \X ChunkIdx |-> NoAccount]
    /\ recovery_config = [k \in Owners |-> NoAccount]
    /\ recovery_request = [p \in Owners \X RequestIds |-> NoAccount]
    /\ recovery_config_v2 = [k \in Owners |-> NoAccount]
    /\ recovery_request_v2 = [p \in Owners \X RequestIds |-> NoAccount]
    /\ stored_log = [k \in Owners |-> << >>]
    /\ result = Result("init", "OK", "", "", 0, 0, << >>)

-----------------------------------------------------------------------------
(* SpecChunk: one vault with one chunk, payloads of several sizes *)

ChunkSigners == {"alice"}
ChunkTiers == {"Basic"}
ChunkTimes == {SUBSCRIPTION_DURATION}
ChunkPayloads == {Payload(0, 0), Payload(10, 1), Payload(10, 5), Payload(30, 3),
                  Payload(1000, 4)}
EntryIds == 1..(MaxEntryId + 1)

NextChunk ==
    \/ \E s \in ChunkSigners : InitializeMasterLockbox(s)
    \/ \E s \in ChunkSigners : InitializeStorageChunk(s, 0, MIN_CHUNK_SIZE)
    \/ \E s \in ChunkSigners, t \in ChunkTiers : UpgradeSubscription(s, t)
    \/ \E s \in ChunkSigners, d \in ChunkPayloads :
          /\ master_lockbox[s] # NoAccount => master_lockbox[s].next_entry_id <= MaxEntryId
          /\ StorePasswordEntry(s, 0, d)
    \/ \E s \in ChunkSigners, e \in EntryIds : RetrievePasswordEntry(s, 0, e)
    \/ \E s \in ChunkSigners, e \in EntryIds, d \in ChunkPayloads :
          UpdatePasswordEntry(s, 0, e, d)
    \/ \E s \in ChunkSigners, e \in EntryIds : DeletePasswordEntry(s, 0, e)
    \/ Tick(ChunkTimes)

SpecChunk == Init /\ [][NextChunk]_vars

-----------------------------------------------------------------------------
(* SpecV1: one Premium vault, its V1 guardian registry and recovery sessions *)

ShareIndexOf(g) == CASE g = "g1" -> 1 [] g = "g2" -> 2 [] g = "g3" -> 3 [] g = "g4" -> 4
EncryptedShareOf(g) == Payload(4, ShareIndexOf(g))

V1Owners == {"alice"}
V1Guardians == {"g1", "g2"}
V1Thresholds == {1, 2}
V1NewOwners == {"bob"}
V1Times == {MIN_RECOVERY_DELAY}
V1RequestIds == {1}
V1Shares == {7}

NextV1 ==
    \/ \E o \in V1Owners : InitializeMasterLockbox(o)
    \/ \E o \in V1Owners : UpgradeSubscription(o, "Premium")
    \/ \E o \in V1Owners, t \in V1Thresholds :
          InitializeRecoveryConfig(o, t, MIN_RECOVERY_DELAY)
    \/ \E o \in V1Owners, g \in V1Guardians :
          AddGuardian(o, g, ShareIndexOf(g), EncryptedShareOf(g))
    \/ \E o \in V1Owners, g \in V1Guardians : AcceptGuardianship(g, o)
    \/ \E o \in V1Owners, g \in V1Guardians : RemoveGuardian(o, g)
    \/ \E o \in V1Owners, g \in V1Guardians, id \in V1RequestIds, n \in V1NewOwners :
          InitiateRecovery(g, o, id, n)
    \/ \E o \in V1Owners, g \in V1Guardians, id \in V1RequestIds, sh \in V1Shares :
          ApproveRecovery(g, o, <<o, id>>, sh)
    \/ \E o \in V1Owners, id \in V1RequestIds, n \in V1NewOwners :
          CompleteRecovery(n, o, <<o, id>>)
    \/ \E o \in V1Owners, id \in V1RequestIds : CancelRecovery(o, <<o, id>>)
    \/ Tick(V1Times)

SpecV1 == Init /\ [][NextV1]_vars

-----------------------------------------------------------------------------
(* SpecV2: one Premium vault, a V2 registry of threshold 3 with up to four  *)
(* guardians, and its challenge sessions (Scenarios A and B)                *)

V2Owners == {"alice"}
V2Guardians == {"g1", "g2", "g3", "g4"}
V2Thresholds == {3}
V2NewOwners == {"bob"}
V2Times == {MIN_RECOVERY_DELAY + 1, MIN_RECOVERY_DELAY + 2}
V2Challenges == {Payload(CHALLENGE_LEN, 1)}
V2Secrets == {2}          \* the owner's master secret
V2Plaintexts == {1}       \* the plaintext of the challenge
V2SecretGuesses == {2, 0}
V2PlaintextGuesses == {1, 3}

V2RequestIds == {1}

\* the next session id stays inside the ids the specification has accounts for
WithinRequestBound(o, max) ==
    recovery_config_v2[o] # NoAccount => recovery_config_v2[o].last_request_id < max

\* guardians are enrolled in the order of their share index
EnrolledInOrder(o, g) ==
    recovery_config_v2[o] # NoAccount =>
        Len(recovery_config_v2[o].guardians) = ShareIndexOf(g) - 1

NextV2 ==
    \/ \E o \in V2Owners : InitializeMasterLockbox(o)
    \/ \E o \in V2Owners : UpgradeSubscription(o, "Premium")
    \/ \E o \in V2Owners, t \in V2Thresholds, m \in V2Secrets :
          InitializeRecoveryConfigV2(o, t, MIN_RECOVERY_DELAY, hash(m))
    \/ \E o \in V2Owners, g \in V2Guardians :
          EnrolledInOrder(o, g) /\ AddGuardianV2(o, g, ShareIndexOf(g), hash(ShareIndexOf(g)))
    \/ \E o \in V2Owners, g \in V2Guardians : AcceptGuardianshipV2(g, o)
    \/ \E o \in V2Owners, g \in V2Guardians, c \in V2Challenges, p \in V2Plaintexts,
          n \in V2NewOwners :
          WithinRequestBound(o, 1) /\ InitiateRecoveryV2(g, o, c, hash(p), n)
    \/ \E o \in V2Owners, g \in V2Guardians, id \in V2RequestIds :
          ConfirmParticipation(g, o, <<o, id>>)
    \/ \E o \in V2Owners, n \in V2NewOwners, id \in V2RequestIds,
          p \in V2PlaintextGuesses, m \in V2SecretGuesses :
          CompleteRecoveryV2(n, o, <<o, id>>, p, m)
    \/ Tick(V2Times)

SpecV2 == Init /\ [][NextV2]_vars

-----------------------------------------------------------------------------
(* SpecProofV2: complete_recovery_with_proof_handler on the sessions that    *)
(* confirm_participation is written to hand it.  The vault, the registry and *)
(* the session are built by the handlers above; the confirmations of the     *)
(* session are drawn from ProofParticipants.                                 *)

ProofOwner == "alice"
ProofThresholds == {1, 2}
ProofParticipants == {<< >>, <<"g1">>, <<"g2", "g1">>}
ProofNewOwners == {"None", "bob"}
ProofTimes == {MIN_RECOVERY_DELAY + RECOVERY_EXPIRATION_PERIOD + 1}

ProofVault ==
    upgrade_subscription(MasterLockbox_initialize(ProofOwner), "Premium", 0).ml

ProofConfig(threshold) ==
    LET c0 == initialize_recovery_config_v2_handler(ProofVault, ProofOwner, threshold,
                  MIN_RECOVERY_DELAY, hash(2)).cfg
        c1 == add_guardian_v2_handler(c0, ProofOwner, "g1", 1, hash(1)).cfg
        c2 == add_guardian_v2_handler(c1, ProofOwner, "g2", 2, hash(2)).cfg
        c3 == accept_guardianship_handler(c2, "g1").cfg
    IN accept_guardianship_handler(c3, "g2").cfg

ProofSession(cfg, participants, new_owner) ==
    LET i == initiate_recovery_v2_handler(cfg, "g1", Payload(CHALLENGE_LEN, 1), hash(1),
                 new_owner, 0)
        req == [i.req EXCEPT !.participating_guardians = participants]
    IN [cfg |-> i.cfg,
        req |-> IF has_sufficient_participants(req, cfg.threshold)
                THEN [req EXCEPT !.status = "ReadyForReconstruction"] ELSE req]

InitProofV2 ==
    \E t \in ProofThresholds, ps \in ProofParticipants, n \in ProofNewOwners :
      LET s == ProofSession(ProofConfig(t), ps, n) IN
        /\ clock = MIN_RECOVERY_DELAY + 2
        /\ master_lockbox = [k \in Owners |-> IF k = ProofOwner THEN ProofVault
                                              ELSE NoAccount]
        /\ storage_chunk = [p \in Owners \X ChunkIdx |-> NoAccount]
        /\ recovery_config = [k \in Owners |-> NoAccount]
        /\ recovery_request = [p \in Owners \X RequestIds |-> NoAccount]
        /\ recovery_config_v2 = [k \in Owners |-> IF k = ProofOwner THEN s.cfg
                                                  ELSE NoAccount]
        /\ recovery_request_v2 = [p \in Owners \X RequestIds |->
                                     IF p = <<ProofOwner, 1>> THEN s.req ELSE NoAccount]
        /\ stored_log = [k \in Owners |-> << >>]
        /\ result = Result("init", "OK", "", "", 0, 0, << >>)

NextProofV2 ==
    \/ \E signer \in {"g1", "bob"}, p \in Digests, m \in Digests :
          CompleteRecoveryV2(signer, ProofOwner, <<ProofOwner, 1>>, p, m)
    \/ Tick(ProofTimes)

SpecProofV2 == InitProofV2 /\ [][NextProofV2]_vars

-----------------------------------------------------------------------------
(* SpecBoth: one Premium vault that sets up one of the two registries, with  *)
(* up to MaxRequestId sessions                                               *)

BothOwners == {"alice"}
BothGuardians == {"g1"}
BothNewOwners == {"bob"}
BothTimes == {RECOVERY_COOLDOWN, MIN_RECOVERY_DELAY}
BothRequestIds == 1..MaxRequestId

NextBoth ==
    \/ \E o \in BothOwners : InitializeMasterLockbox(o)
    \/ \E o \in BothOwners : UpgradeSubscription(o, "Premium")
    \/ \E o \in BothOwners :
          recovery_config_v2[o] = NoAccount /\ InitializeRecoveryConfig(o, 1, MIN_RECOVERY_DELAY)
    \/ \E o \in BothOwners, g \in BothGuardians :
          AddGuardian(o, g, ShareIndexOf(g), EncryptedShareOf(g))
    \/ \E o \in BothOwners, g \in BothGuardians : AcceptGuardianship(g, o)
    \/ \E o \in BothOwners, g \in BothGuardians, id \in BothRequestIds, n \in BothNewOwners :
          InitiateRecovery(g, o, id, n)
    \/ \E o \in BothOwners, g \in BothGuardians, id \in BothRequestIds, sh \in V1Shares :
          ApproveRecovery(g, o, <<o, id>>, sh)
    \/ \E o \in BothOwners, id \in BothRequestIds, n \in BothNewOwners :
          CompleteRecovery(n, o, <<o, id>>)
    \/ \E o \in BothOwners, id \in BothRequestIds : CancelRecovery(o, <<o, id>>)
    \/ \E o \in BothOwners :
          recovery_config[o] = NoAccount
            /\ InitializeRecoveryConfigV2(o, 1, MIN_RECOVERY_DELAY, hash(2))
    \/ \E o \in BothOwners, g \in BothGuardians :
          AddGuardianV2(o, g, ShareIndexOf(g), hash(ShareIndexOf(g)))
    \/ \E o \in BothOwners, g \in BothGuardians : AcceptGuardianshipV2(g, o)
    \/ \E o \in BothOwners, g \in BothGuardians, c \in V2Challenges, n \in BothNewOwners :
          WithinRequestBound(o, MaxRequestId) /\ InitiateRecoveryV2(g, o, c, hash(1), n)
    \/ \E o \in BothOwners, g \in BothGuardians, id \in BothRequestIds :
          ConfirmParticipation(g, o, <<o, id>>)
    \/ \E o \in BothOwners, n \in BothNewOwners, id \in BothRequestIds :
          CompleteRecoveryV2(n, o, <<o, id>>, 1, 2)
    \/ Tick(BothTimes)

SpecBoth == Init /\ [][NextBoth]_vars

-----------------------------------------------------------------------------
(* SpecVault: one Basic vault with two chunks; entries are stored in and     *)
(* deleted from either chunk                                                 *)

VaultOwners == {"alice"}
VaultChunks == {0, 1}
VaultPayloads == {Payload(10, 1), Payload(30, 3)}

NextVault ==
    \/ \E s \in VaultOwners : InitializeMasterLockbox(s)
    \/ \E s \in VaultOwners, c \in VaultChunks : InitializeStorageChunk(s, c, MIN_CHUNK_SIZE)
    \/ \E s \in VaultOwners : UpgradeSubscription(s, "Basic")
    \/ \E s \in VaultOwners, c \in VaultChunks, d \in VaultPayloads :
          /\ master_lockbox[s] # NoAccount => master_lockbox[s].next_entry_id <= MaxEntryId
          /\ StorePasswordEntry(s, c, d)
    \/ \E s \in VaultOwners, c \in VaultChunks, e \in EntryIds : DeletePasswordEntry(s, c, e)

SpecVault == Init /\ [][NextVault]_vars

-----------------------------------------------------------------------------
(* SpecCounters: one Premium vault whose single chunk is filled with one-    *)
(* byte entries up to the header limit, and a V2 registry whose guardian     *)
(* opens sessions with challenges of 80 and of 79 bytes                      *)

CounterOwners == {"alice"}
CounterGuardians == {"g1"}
CounterPayloads == {Payload(1, 0)}
CounterChallenges == {Payload(CHALLENGE_LEN, 1), Payload(CHALLENGE_LEN - 1, 1)}
CounterTimes == {RECOVERY_COOLDOWN}

NextCounters ==
    \/ \E s \in CounterOwners : InitializeMasterLockbox(s)
    \/ \E s \in CounterOwners : InitializeStorageChunk(s, 0, MIN_CHUNK_SIZE)
    \/ \E s \in CounterOwners : UpgradeSubscription(s, "Premium")
    \/ \E s \in CounterOwners, d \in CounterPayloads : StorePasswordEntry(s, 0, d)
    \/ \E o \in CounterOwners : InitializeRecoveryConfigV2(o, 1, MIN_RECOVERY_DELAY, hash(2))
    \/ \E o \in CounterOwners, g \in CounterGuardians :
          AddGuardianV2(o, g, ShareIndexOf(g), hash(ShareIndexOf(g)))
    \/ \E o \in CounterOwners, g \in CounterGuardians : AcceptGuardianshipV2(g, o)
    \/ \E o \in CounterOwners, g \in CounterGuardians, c \in CounterChallenges :
          WithinRequestBound(o, MaxRequestId) /\ InitiateRecoveryV2(g, o, c, hash(1), "bob")
    \/ Tick(CounterTimes)

SpecCounters == Init /\ [][NextCounters]_vars

-----------------------------------------------------------------------------
(* SpecDelete: one vault with one chunk holding up to MaxEntryId + 1 entries *)
(* of 10, 20 and 30 bytes, any of which is deleted                           *)

DeleteOwners == {"alice"}
DeletePayloads == {Payload(10, 1), Payload(20, 2), Payload(30, 3)}

NextDelete ==
    \/ \E s \in DeleteOwners : InitializeMasterLockbox(s)
    \/ \E s \in DeleteOwners : InitializeStorageChunk(s, 0, MIN_CHUNK_SIZE)
    \/ \E s \in DeleteOwners, d \in DeletePayloads :
          /\ master_lockbox[s] # NoAccount
                => master_lockbox[s].next_entry_id <= MaxEntryId + 1
          /\ StorePasswordEntry(s, 0, d)
    \/ \E s \in DeleteOwners, e \in EntryIds : DeletePasswordEntry(s, 0, e)

SpecDelete == Init /\ [][NextDelete]_vars

-----------------------------------------------------------------------------
(* SpecRace: two Active guardians of one registry (V1 or V2) submit initiate *)
(* calls, each naming the request id it intends to use                       *)

RaceOwners == {"alice"}
RaceGuardians == {"g1", "g2"}
RaceTimes == {RECOVERY_COOLDOWN}
RaceRequestIds == 1..MaxRequestId

NextRace ==
    \/ \E o \in RaceOwners : InitializeMasterLockbox(o)
    \/ \E o \in RaceOwners : UpgradeSubscription(o, "Premium")
    \/ \E o \in RaceOwners :
          recovery_config_v2[o] = NoAccount /\ InitializeRecoveryConfig(o, 1, MIN_RECOVERY_DELAY)
    \/ \E o \in RaceOwners, g \in RaceGuardians :
          AddGuardian(o, g, ShareIndexOf(g), EncryptedShareOf(g))
    \/ \E o \in RaceOwners, g \in RaceGuardians : AcceptGuardianship(g, o)
    \/ \E o \in RaceOwners, g \in RaceGuardians, id \in RaceRequestIds :
          InitiateRecovery(g, o, id, g)
    \/ \E o \in RaceOwners :
          recovery_config[o] = NoAccount
            /\ InitializeRecoveryConfigV2(o, 1, MIN_RECOVERY_DELAY, hash(2))
    \/ \E o \in RaceOwners, g \in RaceGuardians :
          AddGuardianV2(o, g, ShareIndexOf(g), hash(ShareIndexOf(g)))
    \/ \E o \in RaceOwners, g \in RaceGuardians : AcceptGuardianshipV2(g, o)
    \/ \E o \in RaceOwners, g \in RaceGuardians, id \in RaceRequestIds :
          InitiateRecoveryV2At(g, o, <<o, id>>, Payload(CHALLENGE_LEN, 1), hash(1), g)
    \/ Tick(RaceTimes)

SpecRace == Init /\ [][NextRace]_vars

-----------------------------------------------------------------------------
(* SpecIdem: guardians g1 and g2 approve a V1 session that is set up from    *)
(* scratch, and confirm the V2 sessions of SpecProofV2, each any number of   *)
(* times                                                                     *)

IdemOwners == {ProofOwner}
IdemGuardians == {"g1", "g2"}
IdemThresholds == {2}
IdemTimes == {2 * MIN_RECOVERY_DELAY + 2}

NextIdem ==
    \/ \E o \in IdemOwners, t \in IdemThresholds :
          InitializeRecoveryConfig(o, t, MIN_RECOVERY_DELAY)
    \/ \E o \in IdemOwners, g \in IdemGuardians :
          AddGuardian(o, g, ShareIndexOf(g), EncryptedShareOf(g))
    \/ \E o \in IdemOwners, g \in IdemGuardians : AcceptGuardianship(g, o)
    \/ \E o \in IdemOwners : InitiateRecovery("g1", o, 1, "bob")
    \/ \E o \in IdemOwners, g \in IdemGuardians, sh \in V1Shares :
          ApproveRecovery(g, o, <<o, 1>>, sh)
    \/ \E o \in IdemOwners, g \in IdemGuardians : ConfirmParticipation(g, o, <<o, 1>>)
    \/ Tick(IdemTimes)

SpecIdem == InitProofV2 /\ [][NextIdem]_vars

-----------------------------------------------------------------------------
(* SpecExpiry: a V1 session set up from scratch (threshold 1) and the V2      *)
(* sessions of SpecProofV2 are completed before, at and after expires_at     *)

ExpiryOwners == {ProofOwner}
ExpiryGuardians == {"g1"}
ExpiryTimes == {2 * MIN_RECOVERY_DELAY + 2,
                MIN_RECOVERY_DELAY + RECOVERY_EXPIRATION_PERIOD,
                2 * MIN_RECOVERY_DELAY + 2 + RECOVERY_EXPIRATION_PERIOD,
                2 * MIN_RECOVERY_DELAY + 3 + RECOVERY_EXPIRATION_PERIOD}

NextExpiry ==
    \/ \E o \in ExpiryOwners : InitializeRecoveryConfig(o, 1, MIN_RECOVERY_DELAY)
    \/ \E o \in ExpiryOwners, g \in ExpiryGuardians :
          AddGuardian(o, g, ShareIndexOf(g), EncryptedShareOf(g))
    \/ \E o \in ExpiryOwners, g \in ExpiryGuardians : AcceptGuardianship(g, o)
    \/ \E o \in ExpiryOwners, g \in ExpiryGuardians : InitiateRecovery(g, o, 1, "bob")
    \/ \E o \in ExpiryOwners, g \in ExpiryGuardians, sh \in V1Shares :
          ApproveRecovery(g, o, <<o, 1>>, sh)
    \/ \E o \in ExpiryOwners : CompleteRecovery("bob", o, <<o, 1>>)
    \/ \E o \in ExpiryOwners : CompleteRecoveryV2("bob", o, <<o, 1>>, 1, 2)
    \/ Tick(ExpiryTimes)

SpecExpiry == InitProofV2 /\ [][NextExpiry]_vars

-----------------------------------------------------------------------------
(* SpecCancel: alice and bob each own a Premium vault with a V1 registry;    *)
(* alice's guardian opens a session, which either owner tries to cancel      *)

CancelOwners == {"alice", "bob"}
CancelGuardians == {"g1"}
CancelTimes == {MIN_RECOVERY_DELAY}

NextCancel ==
    \/ \E o \in CancelOwners : InitializeMasterLockbox(o)
    \/ \E o \in CancelOwners : UpgradeSubscription(o, "Premium")
    \/ \E o \in CancelOwners : InitializeRecoveryConfig(o, 1, MIN_RECOVERY_DELAY)
    \/ \E g \in CancelGuardians :
          AddGuardian("alice", g, ShareIndexOf(g), EncryptedShareOf(g))
    \/ \E g \in CancelGuardians : AcceptGuardianship(g, "alice")
    \/ \E g \in CancelGuardians : InitiateRecovery(g, "alice", 1, "None")
    \/ \E g \in CancelGuardians, sh \in V1Shares :
          ApproveRecovery(g, "alice", <<"alice", 1>>, sh)
    \/ \E g \in CancelGuardians : CompleteRecovery(g, "alice", <<"alice", 1>>)
    \/ \E o \in CancelOwners : CancelRecovery(o, <<"alice", 1>>)
    \/ Tick(CancelTimes)

SpecCancel == Init /\ [][NextCancel]_vars

-----------------------------------------------------------------------------
(* SpecStatus: every instruction that touches a session, on a V1 session set *)
(* up from scratch and on the V2 sessions of SpecProofV2                     *)

StatusOwners == {ProofOwner}
StatusGuardians == {"g1", "g2"}
StatusThresholds == {1, 2}
StatusTimes == {2 * MIN_RECOVERY_DELAY + 2}

NextStatus ==
    \/ \E o \in StatusOwners, t \in StatusThresholds :
          InitializeRecoveryConfig(o, t, MIN_RECOVERY_DELAY)
    \/ \E o \in StatusOwners, g \in StatusGuardians :
          AddGuardian(o, g, ShareIndexOf(g), EncryptedShareOf(g))
    \/ \E o \in StatusOwners, g \in StatusGuardians : AcceptGuardianship(g, o)
    \/ \E o \in StatusOwners : InitiateRecovery("g1", o, 1, "bob")
    \/ \E o \in StatusOwners, g \in StatusGuardians, sh \in V1Shares :
          ApproveRecovery(g, o, <<o, 1>>, sh)
    \/ \E o \in StatusOwners : CompleteRecovery("bob", o, <<o, 1>>)
    \/ \E o \in StatusOwners : CancelRecovery(o, <<o, 1>>)
    \/ \E o \in StatusOwners, g \in StatusGuardians : ConfirmParticipation(g, o, <<o, 1>>)
    \/ \E o \in StatusOwners : CompleteRecoveryV2("bob", o, <<o, 1>>, 1, 2)
    \/ Tick(StatusTimes)

SpecStatus == InitProofV2 /\ [][NextStatus]_vars

-----------------------------------------------------------------------------
(* SpecWindow: approve on a V1 session set up from scratch and confirm on    *)
(* the V2 sessions of SpecProofV2, with the clock just before, at and just   *)
(* after the two ends of the window                                          *)

WindowOwners == {ProofOwner}
WindowGuardians == {"g1", "g2"}
WindowThresholds == {2}
WindowTimes == {MIN_RECOVERY_DELAY - 1, MIN_RECOVERY_DELAY,
                MIN_RECOVERY_DELAY + RECOVERY_EXPIRATION_PERIOD,
                MIN_RECOVERY_DELAY + RECOVERY_EXPIRATION_PERIOD + 1}

\* the accounts of InitProofV2 at the time the V2 session was opened
InitWindow ==
    \E t \in ProofThresholds, ps \in ProofParticipants, n \in ProofNewOwners :
      LET s == ProofSession(ProofConfig(t), ps, n) IN
        /\ clock = 0
        /\ master_lockbox = [k \in Owners |-> IF k = ProofOwner THEN ProofVault
                                              ELSE NoAccount]
        /\ storage_chunk = [p \in Owners \X ChunkIdx |-> NoAccount]
        /\ recovery_config = [k \in Owners |-> NoAccount]
        /\ recovery_request = [p \in Owners \X RequestIds |-> NoAccount]
        /\ recovery_config_v2 = [k \in Owners |-> IF k = ProofOwner THEN s.cfg
                                                  ELSE NoAccount]
        /\ recovery_request_v2 = [p \in Owners \X RequestIds |->
                                     IF p = <<ProofOwner, 1>> THEN s.req ELSE NoAccount]
        /\ stored_log = [k \in Owners |-> << >>]
        /\ result = Result("init", "OK", "", "", 0, 0, << >>)

NextWindow ==
    \/ \E o \in WindowOwners, t \in WindowThresholds :
          InitializeRecoveryConfig(o, t, MIN_RECOVERY_DELAY)
    \/ \E o \in WindowOwners, g \in WindowGuardians :
          AddGuardian(o, g, ShareIndexOf(g), EncryptedShareOf(g))
    \/ \E o \in WindowOwners, g \in WindowGuardians : AcceptGuardianship(g, o)
    \/ \E o \in WindowOwners : InitiateRecovery("g1", o, 1, "bob")
    \/ \E o \in WindowOwners, g \in WindowGuardians, sh \in V1Shares :
          ApproveRecovery(g, o, <<o, 1>>, sh)
    \/ \E o \in WindowOwners, g \in WindowGuardians : ConfirmParticipation(g, o, <<o, 1>>)
    \/ Tick(WindowTimes)

SpecWindow == InitWindow /\ [][NextWindow]_vars

-----------------------------------------------------------------------------
(* SpecRate: the guardian of one registry (V1 or V2) opens sessions at clock *)
(* values less than, exactly and more than one cooldown apart                *)

RateOwners == {"alice"}
RateGuardians == {"g1"}
RateTimes == {1, RECOVERY_COOLDOWN, RECOVERY_COOLDOWN + 1, 2 * RECOVERY_COOLDOWN}
RateRequestIds == 1..MaxRequestId

NextRate ==
    \/ \E o \in RateOwners : InitializeMasterLockbox(o)
    \/ \E o \in RateOwners : UpgradeSubscription(o, "Premium")
    \/ \E o \in RateOwners :
          recovery_config_v2[o] = NoAccount /\ InitializeRecoveryConfig(o, 1, MIN_RECOVERY_DELAY)
    \/ \E o \in RateOwners, g \in RateGuardians :
          AddGuardian(o, g, ShareIndexOf(g), EncryptedShareOf(g))
    \/ \E o \in RateOwners, g \in RateGuardians : AcceptGuardianship(g, o)
    \/ \E o \in RateOwners, g \in RateGuardians, id \in RateRequestIds :
          clock > 0 /\ InitiateRecovery(g, o, id, "bob")
    \/ \E o \in RateOwners :
          recovery_config[o] = NoAccount
            /\ InitializeRecoveryConfigV2(o, 1, MIN_RECOVERY_DELAY, hash(2))
    \/ \E o \in RateOwners, g \in RateGuardians :
          AddGuardianV2(o, g, ShareIndexOf(g), hash(ShareIndexOf(g)))
    \/ \E o \in RateOwners, g \in RateGuardians : AcceptGuardianshipV2(g, o)
    \/ \E o \in RateOwners, g \in RateGuardians :
          /\ clock > 0
          /\ WithinRequestBound(o, MaxRequestId)
          /\ InitiateRecoveryV2(g, o, Payload(CHALLENGE_LEN, 1), hash(1), "bob")
    \/ Tick(RateTimes)

SpecRate == Init /\ [][NextRate]_vars

-----------------------------------------------------------------------------
(* SpecRegistry: the owner of one registry (V1 or V2) adds up to eleven      *)
(* guardians, with fresh, used and zero share indices, and removes them      *)

RegistryOwners == {"alice"}
RegistryKeys == <<"k1", "k2", "k3", "k4", "k5", "k6", "k7", "k8", "k9", "k10", "k11">>
RegistryThresholds == {1, 2}

KeyIndex(g) == CHOOSE i \in 1..Len(RegistryKeys) : RegistryKeys[i] = g

Enrolled(cfg) == {cfg.guardians[i].guardian_pubkey : i \in 1..Len(cfg.guardians)}

\* the keys an add is attempted with: those enrolled and the first one that is not
Candidates(cfg) ==
    {g \in {RegistryKeys[i] : i \in 1..Len(RegistryKeys)} :
        \A j \in 1..(KeyIndex(g) - 1) : RegistryKeys[j] \in Enrolled(cfg)}

\* the share indices an add is attempted with: zero, the key's own, and the
\* one of the first enrolled guardian
CandidateIndices(cfg, g) ==
    {0, KeyIndex(g)} \cup
    (IF Len(cfg.guardians) > 0 THEN {cfg.guardians[1].share_index} ELSE {})

\* the keys a remove is attempted with: any while the registry is small,
\* afterwards the guardian added last, and one that is not enrolled
Removable(cfg) ==
    (IF Len(cfg.guardians) <= 3 THEN Enrolled(cfg)
     ELSE {cfg.guardians[Len(cfg.guardians)].guardian_pubkey})
    \cup {RegistryKeys[Len(RegistryKeys)]}

NextRegistry ==
    \/ \E o \in RegistryOwners : InitializeMasterLockbox(o)
    \/ \E o \in RegistryOwners : UpgradeSubscription(o, "Premium")
    \/ \E o \in RegistryOwners, t \in RegistryThresholds :
          recovery_config_v2[o] = NoAccount /\ InitializeRecoveryConfig(o, t, MIN_RECOVERY_DELAY)
    \/ \E o \in RegistryOwners :
          /\ recovery_config[o] # NoAccount
          /\ \E g \in Candidates(recovery_config[o]) :
             \E i \in CandidateIndices(recovery_config[o], g) :
                AddGuardian(o, g, i, Payload(4, i))
    \/ \E o \in RegistryOwners :
          /\ recovery_config[o] # NoAccount
          /\ \E g \in Removable(recovery_config[o]) : RemoveGuardian(o, g)
    \/ \E o \in RegistryOwners, t \in RegistryThresholds :
          recovery_config[o] = NoAccount
            /\ InitializeRecoveryConfigV2(o, t, MIN_RECOVERY_DELAY, hash(2))
    \/ \E o \in RegistryOwners :
          /\ recovery_config_v2[o] # NoAccount
          /\ \E g \in Candidates(recovery_config_v2[o]) :
             \E i \in CandidateIndices(recovery_config_v2[o], g) :
                AddGuardianV2(o, g, i, hash(i % 5))

SpecRegistry == Init /\ [][NextRegistry]_vars

-----------------------------------------------------------------------------
(* SpecAccess: the vaults of alice and bob, one chunk each; either of them   *)
(* signs storage instructions that name either vault and either chunk.  The  *)
(* accounts are built by the handlers above; alice's vault starts either as  *)
(* she created it or after a V1 recovery has recorded bob as its owner.      *)

AccessOwners == {"alice", "bob"}
AccessChunks == AccessOwners \X {0}
AccessPayloads == {Payload(10, 1)}
AccessSizes == {MAX_CHUNK_SIZE - MIN_CHUNK_SIZE}
AccessEntries == {1}

\* vault and chunk 0 of an owner, after initialize_master_lockbox, upgrade to
\* Premium and initialize_storage_chunk
AccessVault(o) ==
    initialize_storage_chunk_handler(
        upgrade_subscription(MasterLockbox_initialize(o), "Premium", 0).ml,
        o, o, 0, MIN_CHUNK_SIZE)

\* registry of o with the Active guardian g1 and threshold 1
AccessConfig(o) ==
    LET c0 == initialize_recovery_config_handler(AccessVault(o).ml, o, 1,
                  MIN_RECOVERY_DELAY).cfg
        c1 == add_guardian_handler(c0, o, "g1", 1, EncryptedShareOf("g1")).cfg
    IN accept_guardianship_handler(c1, "g1").cfg

\* session 1 of o, opened by g1 for new_owner at time 0, approved by g1 at
\* ready_at and completed
AccessRecovery(o, new_owner) ==
    LET i == initiate_recovery_handler(AccessConfig(o), "g1", 1, new_owner, 0)
        a == approve_recovery_handler(i.cfg, i.req, "g1", 7, MIN_RECOVERY_DELAY)
        c == complete_recovery_handler(i.cfg, a.req, AccessVault(o).ml)
    IN [cfg |-> i.cfg, req |-> c.req, ml |-> c.ml]

InitAccess ==
    \E recovered \in BOOLEAN :
      LET r == AccessRecovery("alice", "bob") IN
        /\ clock = MIN_RECOVERY_DELAY
        /\ master_lockbox = [k \in Owners |->
               IF k = "alice" /\ recovered THEN r.ml ELSE AccessVault(k).ml]
        /\ storage_chunk = [p \in Owners \X ChunkIdx |->
               IF p[2] = 0 THEN AccessVault(p[1]).chunk ELSE NoAccount]
        /\ recovery_config = [k \in Owners |->
               IF k = "alice" /\ recovered THEN r.cfg ELSE NoAccount]
        /\ recovery_request = [p \in Owners \X RequestIds |->
               IF p = <<"alice", 1>> /\ recovered THEN r.req ELSE NoAccount]
        /\ recovery_config_v2 = [k \in Owners |-> NoAccount]
        /\ recovery_request_v2 = [p \in Owners \X RequestIds |-> NoAccount]
        /\ stored_log = [k \in Owners |-> << >>]
        /\ result = Result("init", "OK", "", "", 0, 0, << >>)

NextAccess ==
    \/ \E s \in AccessOwners, v \in AccessOwners, c \in AccessChunks, d \in AccessPayloads :
          /\ master_lockbox[v].next_entry_id <= MaxEntryId
          /\ StorePasswordEntryAt(s, v, c, 0, d)
    \/ \E s \in AccessOwners, v \in AccessOwners, c \in AccessChunks, e \in AccessEntries :
          RetrievePasswordEntryAt(s, v, c, 0, e)
    \/ \E s \in AccessOwners, v \in AccessOwners, c \in AccessChunks, e \in AccessEntries,
          d \in AccessPayloads :
          UpdatePasswordEntryAt(s, v, c, 0, e, d)
    \/ \E s \in AccessOwners, v \in AccessOwners, c \in AccessChunks, e \in AccessEntries :
          DeletePasswordEntryAt(s, v, c, 0, e)
    \/ \E s \in AccessOwners, v \in AccessOwners, c \in AccessChunks, a \in AccessSizes :
          ExpandChunk(s, v, c, a)

SpecAccess == InitAccess /\ [][NextAccess]_vars

-----------------------------------------------------------------------------
(* SpecCross: alice and bob each own a Premium vault and a V1 registry      *)
(* (alice's guardian is g1 and her threshold 1 or 2, bob's guardian is g2    *)
(* and his threshold 1), built by the handlers above.  Guardians open        *)
(* sessions, and approve and complete calls name any registry together with  *)
(* any session.                                                              *)

CrossOwners == {"alice", "bob"}
CrossGuardians == {"g1", "g2"}
CrossRequests == CrossOwners \X {1}
CrossTimes == {MIN_RECOVERY_DELAY}
CrossThresholds == {1, 2}

CrossGuardianOf(o) == IF o = "alice" THEN "g1" ELSE "g2"

\* vault of o after initialize_master_lockbox and the upgrade to Premium
CrossVault(o) == upgrade_subscription(MasterLockbox_initialize(o), "Premium", 0).ml

\* registry of o with its Active guardian and the given threshold
CrossConfig(o, threshold) ==
    LET g == CrossGuardianOf(o)
        c0 == initialize_recovery_config_handler(CrossVault(o), o, threshold,
                  MIN_RECOVERY_DELAY).cfg
        c1 == add_guardian_handler(c0, o, g, ShareIndexOf(g), EncryptedShareOf(g)).cfg
    IN accept_guardianship_handler(c1, g).cfg

InitCross ==
    /\ clock = 0
    /\ master_lockbox = [k \in Owners |-> CrossVault(k)]
    /\ storage_chunk = [p \in Owners \X ChunkIdx |-> NoAccount]
    /\ \E t \in CrossThresholds :
          recovery_config = [k \in Owners |-> CrossConfig(k, IF k = "alice" THEN t ELSE 1)]
    /\ recovery_request = [p \in Owners \X RequestIds |-> NoAccount]
    /\ recovery_config_v2 = [k \in Owners |-> NoAccount]
    /\ recovery_request_v2 = [p \in Owners \X RequestIds |-> NoAccount]
    /\ stored_log = [k \in Owners |-> << >>]
    /\ result = Result("init", "OK", "", "", 0, 0, << >>)

NextCross ==
    \/ \E o \in CrossOwners, g \in CrossGuardians : InitiateRecovery(g, o, 1, "None")
    \/ \E g \in CrossGuardians, c \in CrossOwners, q \in CrossRequests, sh \in V1Shares :
          ApproveRecovery(g, c, q, sh)
    \/ \E g \in CrossGuardians, c \in CrossOwners, q \in CrossRequests :
          CompleteRecovery(g, c, q)
    \/ Tick(CrossTimes)

SpecCross == InitCross /\ [][NextCross]_vars

-----------------------------------------------------------------------------
(* SpecTier: one vault whose tier stays what it is (Free or Basic, built by  *)
(* the handlers above); chunks are registered and expanded, entries stored,  *)
(* updated and deleted                                                       *)

TierOwners == {"alice"}
TierTiers == {"Free", "Basic"}
TierChunks == {0, 1}
TierSizes == {MIN_CHUNK_SIZE}
TierGrowth == {0, MAX_CHUNK_SIZE - MIN_CHUNK_SIZE, MAX_CHUNK_SIZE}
TierPayloads == {Payload(10, 1), Payload(1000, 4), Payload(1030, 2)}
TierEntries == {1, 2}

\* vault of o after initialize_master_lockbox and, for a paid tier, the upgrade
TierVault(o, tier) ==
    IF tier = "Free" THEN MasterLockbox_initialize(o)
    ELSE upgrade_subscription(MasterLockbox_initialize(o), tier, 0).ml

InitTier ==
    /\ clock = 0
    /\ \E tier \in TierTiers :
          master_lockbox = [k \in Owners |-> IF k \in TierOwners THEN TierVault(k, tier)
                                             ELSE NoAccount]
    /\ storage_chunk = [p \in Owners \X ChunkIdx |-> NoAccount]
    /\ recovery_config = [k \in Owners |-> NoAccount]
    /\ recovery_request = [p \in Owners \X RequestIds |-> NoAccount]
    /\ recovery_config_v2 = [k \in Owners |-> NoAccount]
    /\ recovery_request_v2 = [p \in Owners \X RequestIds |-> NoAccount]
    /\ stored_log = [k \in Owners |-> << >>]
    /\ result = Result("init", "OK", "", "", 0, 0, << >>)

NextTier ==
    \/ \E s \in TierOwners, c \in TierChunks, z \in TierSizes :
          InitializeStorageChunk(s, c, z)
    \/ \E s \in TierOwners, c \in TierChunks, a \in TierGrowth :
          ExpandChunk(s, s, <<s, c>>, a)
    \/ \E s \in TierOwners, c \in TierChunks, d \in TierPayloads :
          /\ master_lockbox[s].next_entry_id <= MaxEntryId
          /\ StorePasswordEntry(s, c, d)
    \/ \E s \in TierOwners, c \in TierChunks, e \in TierEntries, d \in TierPayloads :
          UpdatePasswordEntry(s, c, e, d)
    \/ \E s \in TierOwners, c \in TierChunks, e \in TierEntries :
          DeletePasswordEntry(s, c, e)

SpecTier == InitTier /\ [][NextTier]_vars

-----------------------------------------------------------------------------
(* SpecClose: the vault of SpecTier, whose chunks are registered, filled,    *)
(* expanded and closed                                                       *)

CloseOwners == {"alice"}
CloseChunks == {0, 1}
ClosePayloads == {Payload(10, 1)}
CloseGrowth == {MAX_CHUNK_SIZE - MIN_CHUNK_SIZE}
CloseEntries == {1, 2}

NextClose ==
    \/ \E s \in CloseOwners, c \in CloseChunks : InitializeStorageChunk(s, c, MIN_CHUNK_SIZE)
    \/ \E s \in CloseOwners, c \in CloseChunks, a \in CloseGrowth :
          ExpandChunk(s, s, <<s, c>>, a)
    \/ \E s \in CloseOwners, c \in CloseChunks, d \in ClosePayloads :
          /\ master_lockbox[s].next_entry_id <= MaxEntryId
          /\ StorePasswordEntry(s, c, d)
    \/ \E s \in CloseOwners, c \in CloseChunks, e \in CloseEntries :
          DeletePasswordEntry(s, c, e)
    \/ \E s \in CloseOwners, c \in CloseChunks : CloseStorageChunk(s, c)

SpecClose == InitTier /\ [][NextClose]_vars

-----------------------------------------------------------------------------
(* SpecRegister: a Pro vault (built by the handlers above) whose owner       *)
(* registers chunks of the minimum size, trying the indices around the next  *)
(* one and the index MAX_CHUNKS                                              *)

RegisterOwners == {"alice"}
RegisterIdx == 0..MAX_CHUNKS

InitRegister ==
    /\ clock = 0
    /\ master_lockbox = [k \in Owners |-> IF k \in RegisterOwners THEN TierVault(k, "Pro")
                                          ELSE NoAccount]
    /\ storage_chunk = [p \in RegisterOwners \X RegisterIdx |-> NoAccount]
    /\ recovery_config = [k \in Owners |-> NoAccount]
    /\ recovery_request = [p \in Owners \X RequestIds |-> NoAccount]
    /\ recovery_config_v2 = [k \in Owners |-> NoAccount]
    /\ recovery_request_v2 = [p \in Owners \X RequestIds |-> NoAccount]
    /\ stored_log = [k \in Owners |-> << >>]
    /\ result = Result("init", "OK", "", "", 0, 0, << >>)

\* the indices tried: the last one registered, the next one, the one after,
\* and MAX_CHUNKS
NearSequence(s, c) ==
    \/ c = MAX_CHUNKS
    \/ /\ c + 1 >= master_lockbox[s].storage_chunks_count
       /\ c <= master_lockbox[s].storage_chunks_count + 1

NextRegister ==
    \E s \in RegisterOwners, c \in RegisterIdx :
       NearSequence(s, c) /\ InitializeStorageChunk(s, c, MIN_CHUNK_SIZE)

SpecRegister == InitRegister /\ [][NextRegister]_vars

-----------------------------------------------------------------------------
(* SpecPermit: RecoveryConfigV2::check_recovery_rate_limit applied to a      *)
(* registry whose last_recovery_attempt, and to a time and a cooldown, are   *)
(* drawn from the sets below                                                 *)

PermitEpoch == 1000000
PermitLastAttempts == {0, 1, PermitEpoch, PermitEpoch + RECOVERY_COOLDOWN}
PermitTimes ==
    {0, 1, 2, RECOVERY_COOLDOWN - 1, RECOVERY_COOLDOWN, RECOVERY_COOLDOWN + 1,
     PermitEpoch - 1, PermitEpoch, PermitEpoch + 1, PermitEpoch + 1800,
     PermitEpoch + RECOVERY_COOLDOWN - 1, PermitEpoch + RECOVERY_COOLDOWN,
     PermitEpoch + RECOVERY_COOLDOWN + 1, PermitEpoch + 2 * RECOVERY_COOLDOWN - 1,
     PermitEpoch + 2 * RECOVERY_COOLDOWN, PermitEpoch + RECOVERY_COOLDOWN + 7200}
PermitCooldowns == {0, 1, RECOVERY_COOLDOWN}

InitPermit ==
    /\ clock \in PermitTimes
    /\ master_lockbox = [k \in Owners |-> IF k = ProofOwner THEN ProofVault ELSE NoAccount]
    /\ storage_chunk = [p \in Owners \X ChunkIdx |-> NoAccount]
    /\ recovery_config = [k \in Owners |-> NoAccount]
    /\ recovery_request = [p \in Owners \X RequestIds |-> NoAccount]
    /\ \E l \in PermitLastAttempts :
          recovery_config_v2 =
             [k \in Owners |-> IF k = ProofOwner
                               THEN [ProofConfig(1) EXCEPT !.last_recovery_attempt = l]
                               ELSE NoAccount]
    /\ recovery_request_v2 = [p \in Owners \X RequestIds |-> NoAccount]
    /\ stored_log = [k \in Owners |-> << >>]
    /\ result = Result("init", "OK", "", "", 0, 0, << >>)

\* one call of the function; nothing is written
CheckRecoveryRateLimit(config, cooldown_seconds) ==
    /\ result' = [op |-> "check_recovery_rate_limit", err |-> "OK", config |-> config,
                  cooldown_seconds |-> cooldown_seconds,
                  permitted |-> check_recovery_rate_limit(recovery_config_v2[config],
                                     clock, cooldown_seconds)]
    /\ UNCHANGED <<clock, storageVars, recoveryV1Vars, recoveryV2Vars>>

NextPermit == \E c \in PermitCooldowns : CheckRecoveryRateLimit(ProofOwner, c)

SpecPermit == InitPermit /\ [][NextPermit]_vars

-----------------------------------------------------------------------------
(* SpecComplete: the vault of SpecAccess (Premium, chunk 0 registered) with  *)
(* both registries: the V1 registry of SpecAccess, whose session is opened   *)
(* and approved here, and the V2 registry and session of SpecProofV2.        *)
(* Entries are stored before and after the sessions complete.                *)

CompleteNewOwners == {"None", "bob"}
CompletePayloads == {Payload(10, 1)}
CompleteProofs == {0, 1}
CompleteTimes == {2 * MIN_RECOVERY_DELAY + 2}

InitComplete ==
    \E t \in ProofThresholds, ps \in ProofParticipants, n \in CompleteNewOwners :
      LET s == ProofSession(ProofConfig(t), ps, n) IN
        /\ clock = MIN_RECOVERY_DELAY + 2
        /\ master_lockbox = [k \in Owners |-> IF k = ProofOwner THEN AccessVault(k).ml
                                              ELSE NoAccount]
        /\ storage_chunk = [p \in Owners \X ChunkIdx |->
               IF p = <<ProofOwner, 0>> THEN AccessVault(ProofOwner).chunk ELSE NoAccount]
        /\ recovery_config = [k \in Owners |-> IF k = ProofOwner THEN AccessConfig(k)
                                               ELSE NoAccount]
        /\ recovery_request = [p \in Owners \X RequestIds |-> NoAccount]
        /\ recovery_config_v2 = [k \in Owners |-> IF k = ProofOwner THEN s.cfg
                                                  ELSE NoAccount]
        /\ recovery_request_v2 = [p \in Owners \X RequestIds |->
                                     IF p = <<ProofOwner, 1>> THEN s.req ELSE NoAccount]
        /\ stored_log = [k \in Owners |-> << >>]
        /\ result = Result("init", "OK", "", "", 0, 0, << >>)

NextComplete ==
    \/ \E d \in CompletePayloads :
          /\ master_lockbox[ProofOwner].next_entry_id <= MaxEntryId
          /\ StorePasswordEntry(ProofOwner, 0, d)
    \/ \E n \in CompleteNewOwners : InitiateRecovery("g1", ProofOwner, 1, n)
    \/ \E sh \in V1Shares : ApproveRecovery("g1", ProofOwner, <<ProofOwner, 1>>, sh)
    \/ CompleteRecovery("bob", ProofOwner, <<ProofOwner, 1>>)
    \/ \E p \in CompleteProofs :
          CompleteRecoveryV2("bob", ProofOwner, <<ProofOwner, 1>>, p, 2)
    \/ Tick(CompleteTimes)

SpecComplete == InitComplete /\ [][NextComplete]_vars

-----------------------------------------------------------------------------
(* Properties of the storage layer (SpecChunk) *)

RECURSIVE SumSizes(_)
SumSizes(headers) ==
    IF headers = << >> THEN 0 ELSE Head(headers).size + SumSizes(Tail(headers))

ByteRange(h) == h.offset..(h.offset + h.size - 1)

ChunkPartition(chunk) ==
    /\ SumSizes(chunk.entry_headers) = chunk.current_size
    /\ chunk.current_size = Len(chunk.encrypted_data)
    /\ \A i \in 1..Len(chunk.entry_headers) :
          /\ chunk.entry_headers[i].offset >= 0
          /\ ByteRange(chunk.entry_headers[i]) \subseteq 0..(chunk.current_size - 1)
    /\ \A i, j \in 1..Len(chunk.entry_headers) :
          i # j => ByteRange(chunk.entry_headers[i])
                      \cap ByteRange(chunk.entry_headers[j]) = {}

ExistingChunks == {p \in DOMAIN storage_chunk : storage_chunk[p] # NoAccount}

\* C1: in every chunk, after every store, update and delete, the header sizes
\* sum to current_size, which is the arena length, and the headers' byte ranges
\* [offset, offset+size) are pairwise disjoint and lie inside [0, current_size).
C1_OffsetPartition == \A p \in ExistingChunks : ChunkPartition(storage_chunk[p])

\* C1 witness: a size-changing update of the first of two non-empty entries
\* has succeeded, so the second entry's offset was shifted.
C1_Witness ==
    /\ result.op = "update_password_entry" /\ result.err = "OK"
    /\ LET c == storage_chunk[<<result.signer, result.idx>>] IN
          /\ Len(c.entry_headers) = 2
          /\ c.entry_headers[1].entry_id = result.id
          /\ c.entry_headers[1].size = 30
          /\ c.entry_headers[2].size = 10
          /\ c.entry_headers[2].offset = 30

\* C9: right after a successful store, retrieving the id the store assigned
\* returns exactly the payload that was stored.
C9_RoundTrip ==
    (result.op = "store_password_entry" /\ result.err = "OK") =>
        /\ EntryAccounts(result.signer, result.idx) = "OK"
        /\ retrieve_password_entry_handler(master_lockbox[result.signer],
               storage_chunk[<<result.signer, result.idx>>], result.id, clock)
             = [err |-> "OK", data |-> result.data]

\* C9 witness: a 30-byte payload was stored behind an earlier non-empty entry.
C9_Witness ==
    /\ result.op = "store_password_entry" /\ result.err = "OK"
    /\ Len(result.data) = 30
    /\ LET c == storage_chunk[<<result.signer, result.idx>>] IN
          /\ Len(c.entry_headers) = 2
          /\ c.entry_headers[2].entry_id = result.id
          /\ c.entry_headers[2].offset > 0

CapacityErrors == {"InsufficientChunkCapacity", "InsufficientStorageCapacity"}

\* the chunk usage a store or update of the step's payload would produce
UsageAfter(r, chunk) ==
    IF r.op = "store_password_entry"
    THEN chunk.current_size + Len(r.data)
    ELSE chunk.current_size + Len(r.data)
           - chunk.entry_headers[HeaderPosition(chunk, r.id)].size

ExceedingStep(r) ==
    /\ r.op \in {"store_password_entry", "update_password_entry"}
    /\ EntryAccounts(r.signer, r.idx) = "OK"
    /\ LET chunk == storage_chunk[<<r.signer, r.idx>>] IN
          /\ r.op = "update_password_entry" => HeaderPosition(chunk, r.id) # 0
          /\ UsageAfter(r, chunk) > chunk.max_capacity

-----------------------------------------------------------------------------
(* Properties of the recovery protocols *)

ActiveGuardians(cfg) ==
    {cfg.guardians[i].guardian_pubkey : i \in {j \in 1..Len(cfg.guardians) :
                                                 cfg.guardians[j].status = "Active"}}

\* Scenario A's registry and session: threshold 3, four Active guardians, a
\* session initiated at t=0 with delay 86400
ScenarioASetup(config, request) ==
    /\ recovery_config_v2[config] # NoAccount
    /\ recovery_request_v2[request] # NoAccount
    /\ recovery_config_v2[config].threshold = 3
    /\ Cardinality(ActiveGuardians(recovery_config_v2[config])) = 4
    /\ recovery_request_v2[request].requested_at = 0
    /\ recovery_request_v2[request].ready_at = 86400

\* C3 (as stated): in Scenario A every confirm at t=86401 by an Active guardian
\* who has not confirmed yet succeeds, the third confirm moves the session from
\* Pending to ReadyForReconstruction, and a complete at t=86402 with the correct
\* plaintext and secret succeeds, marks the session Completed and transfers the
\* vault.
C3_ScenarioA ==
    [][LET r == result'
           cfg == recovery_config_v2[r.config]
           req == recovery_request_v2[r.request]
       IN /\ ( /\ r.op = "confirm_participation"
               /\ r.request # << >>
               /\ ScenarioASetup(r.config, r.request)
               /\ clock = 86401
               /\ r.signer \in ActiveGuardians(cfg)
               /\ ~has_guardian_confirmed(req, r.signer)
               /\ req.status \in {"Pending", "ReadyForReconstruction"} )
             => /\ r.err = "OK"
                /\ Len(req.participating_guardians) = 2
                     => recovery_request_v2'[r.request].status = "ReadyForReconstruction"
          /\ ( /\ r.op = "complete_recovery_with_proof"
               /\ r.request # << >>
               /\ ScenarioASetup(r.config, r.request)
               /\ clock = 86402
               /\ Len(req.participating_guardians) >= 3
               /\ hash(r.args[1]) = req.challenge.challenge_hash
               /\ hash(r.args[2]) = cfg.master_secret_hash )
             => /\ r.err = "OK"
                /\ recovery_request_v2'[r.request].status = "Completed"
                /\ master_lockbox'[cfg.owner].owner
                     = unwrap_or(req.new_owner, req.requester)]_vars

\* C3 witness: in Scenario A, at t=86401, the first confirm of an Active
\* guardian on the Pending session was refused with RecoveryNotReady.
C3_Witness ==
    /\ result.op = "confirm_participation"
    /\ result.err = "RecoveryNotReady"
    /\ clock = 86401
    /\ result.request # << >>
    /\ ScenarioASetup(result.config, result.request)
    /\ result.signer \in ActiveGuardians(recovery_config_v2[result.config])
    /\ recovery_request_v2[result.request].status = "Pending"
    /\ recovery_request_v2[result.request].participating_guardians = << >>

\* C4: a complete on a ReadyForReconstruction session whose plaintext does not
\* hash to the stored challenge hash, or whose master secret does not hash to
\* the stored master-secret hash, is rejected, leaves the session (status
\* ReadyForReconstruction) and the vault (owner) as they were; a complete that
\* succeeds was given a plaintext and a secret that both hash to the stored
\* values.
C4_ProofRequired ==
    [][LET r == result'
           cfg == recovery_config_v2[r.config]
           req == recovery_request_v2[r.request]
       IN (r.op = "complete_recovery_with_proof"
             /\ CompleteRecoveryV2Accounts(r.config, r.request) = "OK")
          => /\ ( /\ req.status = "ReadyForReconstruction"
                  /\ \/ hash(r.args[1]) # req.challenge.challenge_hash
                     \/ hash(r.args[2]) # cfg.master_secret_hash )
                => /\ r.err # "OK"
                   /\ recovery_request_v2'[r.request] = req
                   /\ master_lockbox' = master_lockbox
             /\ r.err = "OK"
                => /\ hash(r.args[1]) = req.challenge.challenge_hash
                   /\ hash(r.args[2]) = cfg.master_secret_hash]_vars

\* C4 witness: Scenario B, a complete with the right secret and a wrong
\* plaintext was refused and the session is still ReadyForReconstruction.
C4_Witness ==
    /\ result.op = "complete_recovery_with_proof"
    /\ result.err = "InvalidProof"
    /\ clock = 86402
    /\ recovery_request_v2[result.request].status = "ReadyForReconstruction"
    /\ master_lockbox[result.config].owner = result.config

\* C5: remove_guardian, called by the owner for a guardian in the registry,
\* succeeds exactly when guardians.len() - 1 >= threshold; when it succeeds the
\* guardian is gone and the count is one less, and when it fails (in particular
\* whenever guardians.len() = threshold) list and count are unchanged.
C5_ThresholdLockout ==
    [][LET r == result'
           cfg == recovery_config[r.config]
       IN (r.op = "remove_guardian"
             /\ OwnerConfigAccounts(r.signer) = "OK"
             /\ get_guardian(cfg, r.args[1]) # 0)
          => /\ r.err = "OK" <=> Len(cfg.guardians) - 1 >= cfg.threshold
             /\ r.err = "OK"
                => /\ recovery_config'[r.config].guardians
                        = RemoveAt(cfg.guardians, get_guardian(cfg, r.args[1]))
                   /\ recovery_config'[r.config].total_guardians
                        = Len(cfg.guardians) - 1
             /\ r.err # "OK" => recovery_config' = recovery_config
             /\ Len(cfg.guardians) = cfg.threshold => r.err = "InsufficientGuardians"]_vars

\* C5 witness: a registry of threshold 2 with exactly two guardians refused a
\* removal.
C5_Witness ==
    /\ result.op = "remove_guardian"
    /\ result.err = "InsufficientGuardians"
    /\ recovery_config[result.config].threshold = 2
    /\ Len(recovery_config[result.config].guardians) = 2
    /\ recovery_config[result.config].total_guardians = 2

TimingErrors == {"RecoveryNotReady", "RecoveryExpired", "RecoveryRateLimitExceeded"}

\* a complete step of either variant on an existing session whose ready_at is
\* still ahead of the clock
EarlyComplete(r) ==
    /\ r.op \in {"complete_recovery", "complete_recovery_with_proof"}
    /\ r.request # << >>
    /\ IF r.op = "complete_recovery"
       THEN /\ CompleteRecoveryAccounts(r.config, r.request) = "OK"
            /\ clock < recovery_request[r.request].ready_at
       ELSE /\ CompleteRecoveryV2Accounts(r.config, r.request) = "OK"
            /\ clock < recovery_request_v2[r.request].ready_at

SessionIds(requests, o) ==
    {requests[p].request_id : p \in {q \in DOMAIN requests :
                                        q[1] = o /\ requests[q] # NoAccount}}

\* C6: in both variants and for every owner, last_request_id never decreases,
\* and a successful initiate creates a session whose request_id is greater than
\* the request_id of every session created before for that owner (sessions are
\* never deleted, so these are all the owner's session accounts, completed and
\* cancelled ones included) and becomes last_request_id.
C6_RequestIdsIncrease ==
    [][\A o \in Owners :
          /\ (recovery_config[o] # NoAccount /\ recovery_config'[o] # NoAccount)
               => recovery_config'[o].last_request_id >= recovery_config[o].last_request_id
          /\ (recovery_config_v2[o] # NoAccount /\ recovery_config_v2'[o] # NoAccount)
               => recovery_config_v2'[o].last_request_id
                    >= recovery_config_v2[o].last_request_id
          /\ (result'.op = "initiate_recovery" /\ result'.err = "OK"
                /\ result'.config = o)
               => /\ recovery_request[result'.request] = NoAccount
                  /\ \A id \in SessionIds(recovery_request, o) :
                        recovery_request'[result'.request].request_id > id
                  /\ recovery_config'[o].last_request_id
                        = recovery_request'[result'.request].request_id
          /\ (result'.op = "initiate_recovery_v2" /\ result'.err = "OK"
                /\ result'.config = o)
               => /\ recovery_request_v2[result'.request] = NoAccount
                  /\ \A id \in SessionIds(recovery_request_v2, o) :
                        recovery_request_v2'[result'.request].request_id > id
                  /\ recovery_config_v2'[o].last_request_id
                        = recovery_request_v2'[result'.request].request_id]_vars

\* C6 witness: a second V1 session was created after the first one was
\* cancelled.
C6_Witness ==
    /\ result.op = "initiate_recovery" /\ result.err = "OK"
    /\ recovery_request[<<result.config, 1>>] # NoAccount
    /\ recovery_request[<<result.config, 1>>].status = "Cancelled"
    /\ recovery_request[result.request].request_id = 2
    /\ recovery_config[result.config].last_request_id = 2

-----------------------------------------------------------------------------
(* Properties of the counters (SpecVault, SpecCounters) *)

\* the entry ids held by the headers of all chunks of a vault, as a sequence
RECURSIVE HeaderIds(_, _)
HeaderIds(o, n) ==
    IF n < 0 THEN << >>
    ELSE HeaderIds(o, n - 1) \o
         (IF storage_chunk[<<o, n>>] = NoAccount THEN << >>
          ELSE [i \in 1..Len(storage_chunk[<<o, n>>].entry_headers) |->
                   storage_chunk[<<o, n>>].entry_headers[i].entry_id])

NoDuplicates(seq) == \A i, j \in 1..Len(seq) : seq[i] = seq[j] => i = j

EntryIdsUnique ==
    \A o \in Owners : master_lockbox[o] # NoAccount =>
        LET live == HeaderIds(o, 2)
            next == master_lockbox[o].next_entry_id
        IN /\ next >= 1
           /\ next = Len(stored_log[o]) + 1
           /\ NoDuplicates(stored_log[o])
           /\ NoDuplicates(live)
           /\ \A i \in 1..Len(stored_log[o]) :
                 stored_log[o][i] # 0 /\ stored_log[o][i] < next
           /\ \A i \in 1..Len(live) :
                 \E j \in 1..Len(stored_log[o]) : live[i] = stored_log[o][j]

EntryIdStep ==
    \A o \in Owners :
        /\ (master_lockbox[o] = NoAccount /\ master_lockbox'[o] # NoAccount)
              => master_lockbox'[o].next_entry_id = 1
        /\ (master_lockbox[o] # NoAccount /\ master_lockbox'[o] # NoAccount)
              => IF result'.op = "store_password_entry" /\ result'.err = "OK"
                    /\ result'.signer = o
                 THEN /\ master_lockbox'[o].next_entry_id
                            = master_lockbox[o].next_entry_id + 1
                      /\ result'.id = master_lockbox[o].next_entry_id
                 ELSE master_lockbox'[o].next_entry_id = master_lockbox[o].next_entry_id

\* C7: next_entry_id of a vault starts at 1, grows by exactly 1 on every
\* successful store (which hands out the value before the increment) and is
\* changed by nothing else; so no id is handed out twice, the headers of all
\* chunks of the vault carry pairwise different ids, and no id is 0.
C7_EntryIdsUnique == []EntryIdsUnique /\ [][EntryIdStep]_vars

\* C7 witness: the second entry went into another chunk than the first, and the
\* first has since been deleted.
C7_Witness ==
    /\ master_lockbox["alice"] # NoAccount
    /\ master_lockbox["alice"].next_entry_id = 3
    /\ storage_chunk[<<"alice", 0>>] # NoAccount
    /\ storage_chunk[<<"alice", 1>>] # NoAccount
    /\ Len(storage_chunk[<<"alice", 0>>].entry_headers) = 0
    /\ HeaderIds("alice", 2) = <<2>>
    /\ stored_log["alice"] = <<1, 2>>

Counters ==
    [o \in Owners |->
        [next_entry_id |-> IF master_lockbox[o] = NoAccount THEN 0
                           ELSE master_lockbox[o].next_entry_id,
         last_request_id |-> IF recovery_config_v2[o] = NoAccount THEN 0
                             ELSE recovery_config_v2[o].last_request_id,
         last_recovery_attempt |-> IF recovery_config_v2[o] = NoAccount THEN 0
                                   ELSE recovery_config_v2[o].last_recovery_attempt]]

InitiateRefusedAfterBump ==
    /\ result.op = "initiate_recovery_v2"
    /\ result.err = "InvalidDataSize"
    /\ result.args[1] = CHALLENGE_LEN - 1
    /\ clock = RECOVERY_COOLDOWN
    /\ recovery_config_v2[result.config].last_request_id = 0
    /\ recovery_config_v2[result.config].last_recovery_attempt = 0

-----------------------------------------------------------------------------
(* Properties of delete (SpecDelete) *)

\* the delete of entry id in chunk old gave chunk new: header gone, arena and
\* current_size shorter by its size, later offsets lowered by its size, earlier
\* offsets kept, and every other entry reads back as before
DeleteEffect(old, new, id) ==
    LET pos == HeaderPosition(old, id)
        size == old.entry_headers[pos].size
    IN /\ pos # 0
       /\ Len(new.entry_headers) = Len(old.entry_headers) - 1
       /\ HeaderPosition(new, id) = 0
       /\ Len(new.encrypted_data) = Len(old.encrypted_data) - size
       /\ new.current_size = old.current_size - size
       /\ \A i \in 1..Len(old.entry_headers) :
             /\ i < pos => /\ new.entry_headers[i].entry_id = old.entry_headers[i].entry_id
                           /\ new.entry_headers[i].offset = old.entry_headers[i].offset
                           /\ new.entry_headers[i].size = old.entry_headers[i].size
             /\ i > pos => /\ new.entry_headers[i - 1].entry_id = old.entry_headers[i].entry_id
                           /\ new.entry_headers[i - 1].offset
                                 = old.entry_headers[i].offset - size
                           /\ new.entry_headers[i - 1].size = old.entry_headers[i].size
             /\ i # pos => /\ get_entry_data(new, old.entry_headers[i].entry_id).err = "OK"
                           /\ get_entry_data(new, old.entry_headers[i].entry_id)
                                 = get_entry_data(old, old.entry_headers[i].entry_id)

\* C11: a successful delete of an entry of size s removes its header, shortens
\* the arena and the used size (of the chunk and of the vault) by s, lowers by
\* s the offset of every header after it, keeps the offsets of the headers
\* before it, and every remaining entry reads back the bytes it had.
C11_DeleteShifts ==
    [][(result'.op = "delete_password_entry" /\ result'.err = "OK") =>
          /\ DeleteEffect(storage_chunk[<<result'.signer, result'.idx>>],
                          storage_chunk'[<<result'.signer, result'.idx>>], result'.id)
          /\ master_lockbox'[result'.signer].storage_used
               = master_lockbox[result'.signer].storage_used
                 - (storage_chunk[<<result'.signer, result'.idx>>].current_size
                    - storage_chunk'[<<result'.signer, result'.idx>>].current_size)]_vars

\* C11 witness (Scenario D): of three entries of 10, 20 and 30 bytes the middle
\* one was deleted; entry 3 now starts at 10 and the arena is 40 bytes long.
C11_Witness ==
    /\ result.op = "delete_password_entry" /\ result.err = "OK" /\ result.id = 2
    /\ storage_chunk[<<"alice", 0>>].entry_headers
         = << [entry_id |-> 1, offset |-> 0, size |-> 10],
              [entry_id |-> 3, offset |-> 10, size |-> 30] >>
    /\ Len(storage_chunk[<<"alice", 0>>].encrypted_data) = 40
    /\ get_entry_data(storage_chunk[<<"alice", 0>>], 3).data = Payload(30, 3)

-----------------------------------------------------------------------------
(* Properties of concurrent initiation (SpecRace) *)

\* C12 (Scenario E): an initiate call, of either variant, that names the
\* request id of a session that already exists fails, and no initiate call,
\* failed or not, changes a session that already exists; so of two calls
\* submitted with the same intended request id at most one succeeds.
C12_NoOverwrite ==
    [][/\ (result'.op = "initiate_recovery" /\ result'.request # << >>
             /\ recovery_request[result'.request] # NoAccount)
            => result'.err # "OK"
       /\ (result'.op = "initiate_recovery_v2" /\ result'.request # << >>
             /\ recovery_request_v2[result'.request] # NoAccount)
            => result'.err # "OK"
       /\ result'.op \in {"initiate_recovery", "initiate_recovery_v2"}
            => /\ \A p \in DOMAIN recovery_request :
                     recovery_request[p] # NoAccount
                        => recovery_request'[p] = recovery_request[p]
               /\ \A p \in DOMAIN recovery_request_v2 :
                     recovery_request_v2[p] # NoAccount
                        => recovery_request_v2'[p] = recovery_request_v2[p]]_vars

\* C12 witness: g2's V2 call naming request 1 was refused after g1's call had
\* created session 1, once the cooldown had passed.
C12_Witness ==
    /\ result.op = "initiate_recovery_v2"
    /\ result.err # "OK"
    /\ result.signer = "g2"
    /\ result.request = <<"alice", 1>>
    /\ recovery_request_v2[<<"alice", 1>>] # NoAccount
    /\ recovery_request_v2[<<"alice", 1>>].requester = "g1"
    /\ check_recovery_rate_limit(recovery_config_v2["alice"], clock, RECOVERY_COOLDOWN)

\* the same for V1: g2's call with request_id 1 was refused after g1's
RaceLostV1 ==
    /\ result.op = "initiate_recovery"
    /\ result.err # "OK"
    /\ result.signer = "g2"
    /\ result.request = <<"alice", 1>>
    /\ recovery_request[<<"alice", 1>>] # NoAccount
    /\ recovery_request[<<"alice", 1>>].requester = "g1"

-----------------------------------------------------------------------------
(* Properties of approve and confirm (SpecIdem) *)

ApprovingGuardians(req) == [i \in 1..Len(req.approvals) |-> req.approvals[i].guardian]

\* the list new is the list old with the one element g appended
AddsExactly(old, new, g) ==
    /\ Len(new) = Len(old) + 1
    /\ SubSeq(new, 1, Len(old)) = old
    /\ new[Len(new)] = g
    /\ \A i \in 1..Len(old) : old[i] # g

NoGuardianTwice ==
    /\ \A p \in DOMAIN recovery_request :
          recovery_request[p] # NoAccount
             => NoDuplicates(ApprovingGuardians(recovery_request[p]))
    /\ \A p \in DOMAIN recovery_request_v2 :
          recovery_request_v2[p] # NoAccount
             => NoDuplicates(recovery_request_v2[p].participating_guardians)

IdempotentStep ==
    LET r == result' IN
    /\ (r.op = "approve_recovery" /\ ConfigRequestAccounts(r.config, r.request) = "OK")
          => LET req == recovery_request[r.request] IN
             /\ r.err = "OK"
                  => AddsExactly(ApprovingGuardians(req),
                                 ApprovingGuardians(recovery_request'[r.request]), r.signer)
             /\ has_guardian_approved(req, r.signer)
                  => r.err # "OK" /\ recovery_request'[r.request] = req
    /\ (r.op = "confirm_participation"
          /\ ConfigRequestV2Accounts(r.config, r.request) = "OK")
          => LET req == recovery_request_v2[r.request] IN
             /\ r.err = "OK"
                  => AddsExactly(req.participating_guardians,
                        recovery_request_v2'[r.request].participating_guardians, r.signer)
             /\ has_guardian_confirmed(req, r.signer)
                  => r.err # "OK" /\ recovery_request_v2'[r.request] = req

\* C13: a successful approve (V1) or confirm (V2) appends exactly one
\* confirmation, of the calling guardian, who had none before; a call by a
\* guardian who is already in the session's list is rejected and leaves the
\* session (list, size, status) as it was; no list ever names a guardian twice.
C13_IdempotentConfirm == []NoGuardianTwice /\ [][IdempotentStep]_vars

\* C13 witness: g1's second approve of a V1 session that still waits for g2 was
\* refused as a duplicate.
C13_Witness ==
    /\ result.op = "approve_recovery"
    /\ result.err = "GuardianAlreadyApproved"
    /\ result.signer = "g1"
    /\ ApprovingGuardians(recovery_request[result.request]) = <<"g1">>
    /\ recovery_request[result.request].status = "Pending"

\* the same for V2: g2's second confirm was refused as a duplicate
ConfirmedTwiceV2 ==
    /\ result.op = "confirm_participation"
    /\ result.err = "GuardianAlreadyApproved"
    /\ result.signer = "g2"
    /\ recovery_request_v2[result.request].participating_guardians = <<"g1", "g2">>

-----------------------------------------------------------------------------
(* Properties of expiry (SpecExpiry) *)

\* a complete step of either variant on an existing session whose expires_at
\* lies before the clock
LateComplete(r) ==
    /\ r.op \in {"complete_recovery", "complete_recovery_with_proof"}
    /\ r.request # << >>
    /\ IF r.op = "complete_recovery"
       THEN /\ CompleteRecoveryAccounts(r.config, r.request) = "OK"
            /\ clock > recovery_request[r.request].expires_at
       ELSE /\ CompleteRecoveryV2Accounts(r.config, r.request) = "OK"
            /\ clock > recovery_request_v2[r.request].expires_at

\* C14: in both variants a complete on a session with now > expires_at fails
\* and leaves the session's status and the vault's owner unchanged, also when
\* the session had reached ReadyForReconstruction before it expired.
C14_ExpiredCompleteFails ==
    [][LateComplete(result') =>
          /\ result'.err # "OK"
          /\ recovery_request' = recovery_request
          /\ recovery_request_v2' = recovery_request_v2
          /\ master_lockbox' = master_lockbox]_vars

\* C14 witness: a V1 session approved inside its window was completed after
\* expires_at, and the vault went to the new owner.
C14_Witness ==
    /\ result.op = "complete_recovery" /\ result.err = "OK"
    /\ recovery_request[result.request].status = "Completed"
    /\ clock > recovery_request[result.request].expires_at
    /\ master_lockbox[result.config].owner = "bob"

\* the V2 handler does refuse: a complete with the right proof on an expired
\* ReadyForReconstruction session
LateCompleteRefusedV2 ==
    /\ result.op = "complete_recovery_with_proof"
    /\ result.err = "RecoveryExpired"
    /\ recovery_request_v2[result.request].status = "ReadyForReconstruction"
    /\ clock > recovery_request_v2[result.request].expires_at

\* C14 restricted to V2, which holds
ExpiredCompleteFailsV2 ==
    [][(LateComplete(result') /\ result'.op = "complete_recovery_with_proof") =>
          /\ result'.err # "OK"
          /\ recovery_request_v2' = recovery_request_v2
          /\ master_lockbox' = master_lockbox]_vars

-----------------------------------------------------------------------------
(* Properties of cancel (SpecCancel) *)

\* C15: a cancel of an existing session succeeds exactly when the caller is
\* the owner of the vault the session recovers and the status is not
\* Completed; a successful cancel sets the status to Cancelled and changes
\* nothing else; a rejected cancel changes nothing.
C15_CancelOwnerOnly ==
    [][LET r == result' IN
       (r.op = "cancel_recovery" /\ recovery_request[r.request] # NoAccount) =>
          LET req == recovery_request[r.request] IN
          /\ r.err = "OK" <=> (r.signer = req.owner /\ req.status # "Completed")
          /\ r.err = "OK" =>
                recovery_request' = [recovery_request EXCEPT
                                        ![r.request] = [req EXCEPT !.status = "Cancelled"]]
          /\ r.err # "OK" => recovery_request' = recovery_request
          /\ UNCHANGED <<master_lockbox, recovery_config>>]_vars

\* C15 witness: bob, who owns another vault and registry, cancelled the session
\* that recovers alice's vault.
C15_Witness ==
    /\ result.op = "cancel_recovery" /\ result.err = "OK"
    /\ result.signer = "bob"
    /\ recovery_request[result.request].owner = "alice"
    /\ recovery_request[result.request].status = "Cancelled"
    /\ master_lockbox["alice"].owner = "alice"

\* what cancel does guarantee: the caller owns some registry, the status was
\* not Completed, only the status of the named session changes
CancelBySomeOwner ==
    [][LET r == result' IN
       (r.op = "cancel_recovery" /\ recovery_request[r.request] # NoAccount) =>
          LET req == recovery_request[r.request] IN
          /\ r.err = "OK" <=> (OwnerConfigAccounts(r.signer) = "OK"
                                 /\ req.status # "Completed")
          /\ r.err = "OK" =>
                recovery_request' = [recovery_request EXCEPT
                                        ![r.request] = [req EXCEPT !.status = "Cancelled"]]
          /\ r.err # "OK" => recovery_request' = recovery_request
          /\ UNCHANGED <<master_lockbox, recovery_config>>]_vars

\* a cancel of a Completed session was refused
CancelCompletedRefused ==
    /\ result.op = "cancel_recovery" /\ result.err = "RecoveryAlreadyCompleted"
    /\ recovery_request[result.request].status = "Completed"

-----------------------------------------------------------------------------
(* Properties of the session status (SpecStatus) *)

StatusChanges ==
    { <<"Pending", "ReadyForReconstruction">>, <<"ReadyForReconstruction", "Completed">>,
      <<"Pending", "Cancelled">>, <<"ReadyForReconstruction", "Cancelled">> }

TerminalStatus == {"Completed", "Cancelled"}

StatusStep ==
    /\ \A p \in DOMAIN recovery_request :
          IF recovery_request[p] = NoAccount
          THEN recovery_request'[p] # NoAccount => recovery_request'[p].status = "Pending"
          ELSE /\ recovery_request'[p] # NoAccount
               /\ \/ recovery_request'[p].status = recovery_request[p].status
                  \/ <<recovery_request[p].status, recovery_request'[p].status>>
                        \in StatusChanges
    /\ \A p \in DOMAIN recovery_request_v2 :
          IF recovery_request_v2[p] = NoAccount
          THEN recovery_request_v2'[p] # NoAccount
                  => recovery_request_v2'[p].status = "Pending"
          ELSE /\ recovery_request_v2'[p] # NoAccount
               /\ \/ recovery_request_v2'[p].status = recovery_request_v2[p].status
                  \/ <<recovery_request_v2[p].status, recovery_request_v2'[p].status>>
                        \in StatusChanges

TerminalStep ==
    LET r == result' IN
    /\ (r.op \in {"approve_recovery", "complete_recovery"}
          /\ ConfigRequestAccounts(r.config, r.request) = "OK"
          /\ recovery_request[r.request].status \in TerminalStatus)
          => r.err # "OK" /\ recovery_request' = recovery_request
                          /\ master_lockbox' = master_lockbox
    /\ (r.op \in {"confirm_participation", "complete_recovery_with_proof"}
          /\ ConfigRequestV2Accounts(r.config, r.request) = "OK"
          /\ recovery_request_v2[r.request].status \in TerminalStatus)
          => r.err # "OK" /\ recovery_request_v2' = recovery_request_v2
                          /\ master_lockbox' = master_lockbox

\* C16: a session is created Pending; its status changes only Pending ->
\* ReadyForReconstruction, ReadyForReconstruction -> Completed, Pending ->
\* Cancelled or ReadyForReconstruction -> Cancelled; a Completed or Cancelled
\* session keeps its status, and every approve, confirm or complete on it is
\* rejected without effect.
C16_StatusMachine == [][StatusStep /\ TerminalStep]_vars

\* C16 witness: a session that had collected its approvals was cancelled, and
\* the complete that followed was refused.
C16_Witness ==
    /\ result.op = "complete_recovery" /\ result.err = "RecoveryNotReady"
    /\ recovery_request[result.request].status = "Cancelled"
    /\ has_sufficient_approvals(recovery_request[result.request],
                                recovery_config[result.config].threshold)

\* further cases of C16 that are reached
ApproveOnCompletedRefused ==
    /\ result.op = "approve_recovery" /\ result.err # "OK"
    /\ ConfigRequestAccounts(result.config, result.request) = "OK"
    /\ recovery_request[result.request].status = "Completed"
    /\ is_active_guardian(recovery_config[result.config], result.signer)
    /\ ~has_guardian_approved(recovery_request[result.request], result.signer)

ConfirmOnCompletedRefusedV2 ==
    /\ result.op = "confirm_participation" /\ result.err # "OK"
    /\ recovery_request_v2[result.request].status = "Completed"
    /\ ~has_guardian_confirmed(recovery_request_v2[result.request], result.signer)

CancelledWhilePending ==
    /\ result.op = "cancel_recovery" /\ result.err = "OK"
    /\ Len(recovery_request[result.request].approvals) = 0

-----------------------------------------------------------------------------
(* Properties of the confirmation window (SpecWindow) *)

OutsideWindow(req) == clock < req.ready_at \/ clock > req.expires_at

WindowStep ==
    LET r == result' IN
    /\ (r.op = "approve_recovery" /\ ConfigRequestAccounts(r.config, r.request) = "OK")
          => LET req == recovery_request[r.request]
                 cfg == recovery_config[r.config]
             IN /\ OutsideWindow(req)
                     => r.err # "OK" /\ recovery_request' = recovery_request
                /\ ( /\ ~OutsideWindow(req)
                     /\ is_active_guardian(cfg, r.signer)
                     /\ ~has_guardian_approved(req, r.signer)
                     /\ req.status = "Pending" )
                     => r.err = "OK"
    /\ (r.op = "confirm_participation"
          /\ ConfigRequestV2Accounts(r.config, r.request) = "OK")
          => LET req == recovery_request_v2[r.request]
                 cfg == recovery_config_v2[r.config]
             IN /\ OutsideWindow(req)
                     => r.err # "OK" /\ recovery_request_v2' = recovery_request_v2
                /\ ( /\ ~OutsideWindow(req)
                     /\ is_active_guardian_v2(cfg, r.signer)
                     /\ ~has_guardian_confirmed(req, r.signer)
                     /\ req.status = "ReadyForReconstruction" )
                     => r.err = "OK"

ApproveTooEarly ==
    /\ result.op = "approve_recovery" /\ result.err = "RecoveryNotReady"
    /\ recovery_request[<<ProofOwner, 1>>] # NoAccount
    /\ clock = recovery_request[<<ProofOwner, 1>>].ready_at - 1

ApproveTooLate ==
    /\ result.op = "approve_recovery" /\ result.err = "RecoveryExpired"
    /\ clock = recovery_request[<<ProofOwner, 1>>].expires_at + 1

ConfirmAtReadyAtV2 ==
    /\ result.op = "confirm_participation" /\ result.err = "OK"
    /\ clock = recovery_request_v2[result.request].ready_at

ConfirmAtExpiresAtV2 ==
    /\ result.op = "confirm_participation" /\ result.err = "OK"
    /\ clock = recovery_request_v2[result.request].expires_at

ConfirmTooLateV2 ==
    /\ result.op = "confirm_participation" /\ result.err = "RecoveryNotReady"
    /\ recovery_request_v2[result.request].status = "ReadyForReconstruction"
    /\ clock = recovery_request_v2[result.request].expires_at + 1

-----------------------------------------------------------------------------
(* Properties of rate limiting (SpecRate) *)

\* some session of owner o in requests was opened less than one cooldown ago
OpenedRecently(requests, o) ==
    \E p \in DOMAIN requests :
        /\ p[1] = o
        /\ requests[p] # NoAccount
        /\ clock - requests[p].requested_at < RECOVERY_COOLDOWN

RateStepV1 ==
    LET r == result' IN
    (r.op = "initiate_recovery" /\ recovery_config[r.config] # NoAccount) =>
        /\ OpenedRecently(recovery_request, r.config)
              => r.err # "OK" /\ recovery_request' = recovery_request
        /\ SessionIds(recovery_request, r.config) = {}
              => r.err # "RecoveryRateLimitExceeded"

RateStepV2 ==
    LET r == result' IN
    (r.op = "initiate_recovery_v2" /\ recovery_config_v2[r.config] # NoAccount) =>
        /\ OpenedRecently(recovery_request_v2, r.config)
              => r.err # "OK" /\ recovery_request_v2' = recovery_request_v2
        /\ SessionIds(recovery_request_v2, r.config) = {}
              => r.err # "RecoveryRateLimitExceeded"

\* C18: for every registry, an initiate attempted less than one cooldown after
\* a successful initiate is rejected and creates no session, and the first
\* initiate of a registry is never rejected by the rate limiter.
C18_RateLimited == [][RateStepV1 /\ RateStepV2]_vars

\* C18 witness: two V1 sessions of the same registry were opened at the same
\* clock value.
C18_Witness ==
    /\ result.op = "initiate_recovery" /\ result.err = "OK"
    /\ recovery_request[<<"alice", 1>>] # NoAccount
    /\ recovery_request[<<"alice", 2>>] # NoAccount
    /\ recovery_request[<<"alice", 1>>].requested_at
         = recovery_request[<<"alice", 2>>].requested_at

\* C18 restricted to V2 registries, which holds
RateLimitedV2 == [][RateStepV2]_vars

\* a V2 initiate 3599 seconds after the first one was refused
RefusedInsideCooldownV2 ==
    /\ result.op = "initiate_recovery_v2" /\ result.err = "RecoveryRateLimitExceeded"
    /\ clock - recovery_config_v2[result.config].last_recovery_attempt
         = RECOVERY_COOLDOWN - 1

\* a V2 initiate exactly one cooldown after the first one was accepted
AcceptedAfterCooldownV2 ==
    /\ result.op = "initiate_recovery_v2" /\ result.err = "OK"
    /\ recovery_request_v2[<<"alice", 1>>] # NoAccount
    /\ recovery_request_v2[<<"alice", 2>>] # NoAccount
    /\ recovery_request_v2[<<"alice", 2>>].requested_at
         - recovery_request_v2[<<"alice", 1>>].requested_at = RECOVERY_COOLDOWN

-----------------------------------------------------------------------------
(* Properties of the guardian registry (SpecRegistry) *)

RegistryOK(cfg) ==
    /\ Len(cfg.guardians) <= MAX_GUARDIANS
    /\ cfg.total_guardians = Len(cfg.guardians)
    /\ \A i, j \in 1..Len(cfg.guardians) :
          (cfg.guardians[i].guardian_pubkey = cfg.guardians[j].guardian_pubkey
             \/ cfg.guardians[i].share_index = cfg.guardians[j].share_index) => i = j
    /\ \A i \in 1..Len(cfg.guardians) :
          cfg.guardians[i].share_index >= 1 /\ cfg.guardians[i].share_index <= U8_MAX

RegistriesOK ==
    \A o \in Owners :
        /\ recovery_config[o] # NoAccount => RegistryOK(recovery_config[o])
        /\ recovery_config_v2[o] # NoAccount => RegistryOK(recovery_config_v2[o])

\* an add of key g with share index i to cfg breaks one of the registry's rules
BreaksRegistry(cfg, g, i) ==
    \/ Len(cfg.guardians) >= MAX_GUARDIANS
    \/ i = 0
    \/ \E k \in 1..Len(cfg.guardians) :
          cfg.guardians[k].guardian_pubkey = g \/ cfg.guardians[k].share_index = i

\* new is old with guardian g, share index i, status PendingAcceptance appended
Enrols(old, new, g, i) ==
    /\ Len(new.guardians) = Len(old.guardians) + 1
    /\ SubSeq(new.guardians, 1, Len(old.guardians)) = old.guardians
    /\ new.guardians[Len(new.guardians)].guardian_pubkey = g
    /\ new.guardians[Len(new.guardians)].share_index = i
    /\ new.guardians[Len(new.guardians)].status = "PendingAcceptance"

AddStep ==
    LET r == result' IN
    /\ (r.op = "add_guardian" /\ recovery_config[r.config] # NoAccount)
          => /\ BreaksRegistry(recovery_config[r.config], r.args[1], r.args[2])
                  => r.err # "OK" /\ recovery_config' = recovery_config
             /\ r.err = "OK"
                  => Enrols(recovery_config[r.config], recovery_config'[r.config],
                            r.args[1], r.args[2])
    /\ (r.op = "add_guardian_v2" /\ recovery_config_v2[r.config] # NoAccount)
          => /\ BreaksRegistry(recovery_config_v2[r.config], r.args[1], r.args[2])
                  => r.err # "OK" /\ recovery_config_v2' = recovery_config_v2
             /\ r.err = "OK"
                  => Enrols(recovery_config_v2[r.config], recovery_config_v2'[r.config],
                            r.args[1], r.args[2])

FullRegistryV2 ==
    /\ result.op = "add_guardian_v2" /\ result.err = "TooManyGuardians"
    /\ Len(recovery_config_v2[result.config].guardians) = MAX_GUARDIANS

ZeroIndexRefused ==
    /\ result.op = "add_guardian" /\ result.err = "InvalidShareIndex"
    /\ result.args[2] = 0

UsedIndexRefused ==
    /\ result.op = "add_guardian" /\ result.err = "DuplicateShareIndex"
    /\ result.args[1] \notin Enrolled(recovery_config[result.config])

ReAddedAfterRemove ==
    /\ result.op = "add_guardian" /\ result.err = "OK"
    /\ Len(recovery_config[result.config].guardians) = 3
    /\ recovery_config[result.config].guardians[3].guardian_pubkey = "k1"

\* C20: every registry, from its creation on, has
\* 1 <= threshold <= guardians.len() <= 10.
C20_ThresholdInvariant ==
    \A o \in Owners :
        /\ recovery_config[o] # NoAccount
              => /\ validate_threshold(recovery_config[o])
                 /\ Len(recovery_config[o].guardians) <= MAX_GUARDIANS
        /\ recovery_config_v2[o] # NoAccount
              => /\ validate_threshold(recovery_config_v2[o])
                 /\ Len(recovery_config_v2[o].guardians) <= MAX_GUARDIANS

\* C20 witness: a V1 registry was created with threshold 2 and no guardian.
C20_Witness ==
    /\ result.op = "initialize_recovery_config" /\ result.err = "OK"
    /\ recovery_config[result.config].threshold = 2
    /\ Len(recovery_config[result.config].guardians) = 0

\* what the instructions do keep: 1 <= threshold <= 10 and guardians.len() <=
\* 10 always, and a V1 registry that has at least threshold guardians never
\* falls below the threshold again
ThresholdBounds ==
    \A o \in Owners :
        /\ recovery_config[o] # NoAccount
              => /\ recovery_config[o].threshold \in 1..MAX_GUARDIANS
                 /\ Len(recovery_config[o].guardians) <= MAX_GUARDIANS
        /\ recovery_config_v2[o] # NoAccount
              => /\ recovery_config_v2[o].threshold \in 1..MAX_GUARDIANS
                 /\ Len(recovery_config_v2[o].guardians) <= MAX_GUARDIANS

ThresholdKept ==
    [][\A o \in Owners :
          (recovery_config[o] # NoAccount /\ validate_threshold(recovery_config[o]))
             => validate_threshold(recovery_config'[o])]_vars

-----------------------------------------------------------------------------
(* Properties of the inputs of the challenge protocol (SpecProofV2)         *)

CompleteNeedsSecret ==
    (result.op = "complete_recovery_with_proof" /\ result.err = "OK")
        => hash(result.args[2]) = recovery_config_v2[result.config].master_secret_hash

-----------------------------------------------------------------------------
(* Properties of vault isolation (SpecAccess)                               *)

StorageOps ==
    {"store_password_entry", "retrieve_password_entry", "update_password_entry",
     "delete_password_entry", "expand_chunk"}

\* the errors with which the account constraints refuse a caller that is not
\* the owner: ConstraintSeeds where the named account is not the one derived
\* from the caller's key, Unauthorized where its recorded owner is another key
AuthorizationErrors == {"Unauthorized", "ConstraintSeeds"}

\* the vaults, chunks and logs other than the named ones keep their contents
OthersUnchanged(vault, chunk) ==
    /\ \A o \in Owners \ {vault} :
          master_lockbox'[o] = master_lockbox[o] /\ stored_log'[o] = stored_log[o]
    /\ \A p \in (Owners \X ChunkIdx) \ {chunk} : storage_chunk'[p] = storage_chunk[p]

\* what one storage instruction does to the vaults and chunks
IsolationStep ==
    LET r == result'
        vault == r.target[1]
        chunk == r.target[2]
    IN r.op \in StorageOps =>
          /\ \A o \in Owners :
                (master_lockbox[o] # NoAccount /\ master_lockbox[o].owner # r.signer)
                   => master_lockbox'[o] = master_lockbox[o]
          /\ \A p \in Owners \X ChunkIdx :
                (storage_chunk[p] # NoAccount /\ storage_chunk[p].owner # r.signer)
                   => storage_chunk'[p] = storage_chunk[p]
          /\ \A o \in Owners \ {r.signer} :
                master_lockbox'[o] = master_lockbox[o] /\ stored_log'[o] = stored_log[o]
          /\ \A p \in Owners \X ChunkIdx :
                p[1] # r.signer => storage_chunk'[p] = storage_chunk[p]
          /\ ( /\ master_lockbox[vault] # NoAccount
               /\ storage_chunk[chunk] # NoAccount
               /\ \/ master_lockbox[vault].owner # r.signer
                  \/ storage_chunk[chunk].owner # r.signer )
                => /\ r.err \in AuthorizationErrors
                   /\ UNCHANGED storageVars
          /\ r.err = "OK"
                => /\ master_lockbox[vault].owner = r.signer
                   /\ storage_chunk[chunk].owner = r.signer
                   /\ OthersUnchanged(vault, chunk)

\* C22: a store, update, delete, read or expand call changes only the vault and
\* the chunk recorded as owned by the caller; a call that names a vault or a
\* chunk whose recorded owner is not the caller is refused as unauthorized and
\* changes nothing; no vault or chunk of another owner is modified by it.
C22_VaultIsolation == [][IsolationStep]_vars

\* C22 witness: bob's store naming alice's vault and chunk, which hold an entry
\* of hers, was refused.
C22_Witness ==
    /\ result.op = "store_password_entry" /\ result.signer = "bob"
    /\ result.target = <<"alice", <<"alice", 0>>>>
    /\ result.err \in AuthorizationErrors
    /\ master_lockbox["alice"].owner = "alice"
    /\ master_lockbox["alice"].total_entries = 1
    /\ storage_chunk[<<"alice", 0>>].entry_count = 1

\* a caller's own vault with another owner's chunk is refused too
ForeignChunkRefused ==
    /\ result.op \in {"update_password_entry", "delete_password_entry", "expand_chunk"}
    /\ result.signer = "alice"
    /\ result.target = <<"alice", <<"bob", 0>>>>
    /\ result.err \in AuthorizationErrors
    /\ storage_chunk[<<"bob", 0>>].entry_count = 1

\* the vault at the caller's own address that records another owner
RecordedOwnerRefused ==
    /\ result.op \in StorageOps /\ result.signer = "alice"
    /\ result.target = <<"alice", <<"alice", 0>>>>
    /\ master_lockbox["alice"].owner = "bob"
    /\ result.err = "Unauthorized"

\* an accepted call of each kind on the caller's own vault
OwnCallsAccepted ==
    /\ result.op = "expand_chunk" /\ result.err = "OK" /\ result.signer = "bob"
    /\ storage_chunk[<<"bob", 0>>].max_capacity = MAX_CHUNK_SIZE
    /\ storage_chunk[<<"bob", 0>>].entry_count = 1
    /\ storage_chunk[<<"alice", 0>>].entry_count = 1

-----------------------------------------------------------------------------
(* Properties of the caller of complete (SpecV1, SpecProofV2)               *)

\* C23: a complete call from an identity that is not a guardian registered in
\* the registry of the session's owner is rejected as Unauthorized and changes
\* neither the session nor the vault.
C23_CompleteByGuardianOnly ==
    [][LET r == result' IN
       /\ (r.op = "complete_recovery"
             /\ CompleteRecoveryAccounts(r.config, r.request) = "OK"
             /\ get_guardian(recovery_config[r.config], r.signer) = 0)
          => /\ r.err = "Unauthorized"
             /\ recovery_request' = recovery_request
             /\ master_lockbox' = master_lockbox
       /\ (r.op = "complete_recovery_with_proof"
             /\ CompleteRecoveryV2Accounts(r.config, r.request) = "OK"
             /\ get_guardian(recovery_config_v2[r.config], r.signer) = 0)
          => /\ r.err = "Unauthorized"
             /\ recovery_request_v2' = recovery_request_v2
             /\ master_lockbox' = master_lockbox]_vars

\* C23 witness: complete_recovery sent by bob, who is in no registry, was
\* accepted and recorded him as the owner of alice's vault.
C23_Witness ==
    /\ result.op = "complete_recovery" /\ result.err = "OK"
    /\ result.signer = "bob"
    /\ get_guardian(recovery_config[result.config], result.signer) = 0
    /\ recovery_request[result.request].status = "Completed"
    /\ master_lockbox[result.config].owner = "bob"

\* the same for complete_recovery_with_proof
CompleteByStrangerV2 ==
    /\ result.op = "complete_recovery_with_proof" /\ result.err = "OK"
    /\ result.signer = "bob"
    /\ get_guardian(recovery_config_v2[result.config], result.signer) = 0
    /\ recovery_request_v2[result.request].status = "Completed"
    /\ master_lockbox[result.config].owner # result.config

-----------------------------------------------------------------------------
(* Properties of recovery with several registries (SpecCross)               *)

\* the guardians with an approval in the session that are Active in cfg
ApprovedBy(req, cfg) ==
    {g \in Guardians : has_guardian_approved(req, g) /\ is_active_guardian(cfg, g)}

\* C24: the owner of a vault changes only in an accepted complete on a session
\* opened for that vault's owner which holds approvals of at least threshold
\* distinct guardians that are Active in that owner's own registry.
C24_OwnRegistryOnly ==
    [][\A v \in Owners :
          (master_lockbox[v] # NoAccount /\ master_lockbox'[v] # master_lockbox[v]
             /\ master_lockbox'[v].owner # master_lockbox[v].owner)
          => LET r == result' IN
             /\ r.op = "complete_recovery" /\ r.err = "OK"
             /\ recovery_request[r.request].owner = v
             /\ Cardinality(ApprovedBy(recovery_request[r.request], recovery_config[v]))
                   >= recovery_config[v].threshold]_vars

\* C24 witness: alice's vault changed owner in a complete that named bob's
\* session, which holds no approval of a guardian of alice.
C24_Witness ==
    /\ result.op = "complete_recovery" /\ result.err = "OK"
    /\ result.config = "alice" /\ result.request = <<"bob", 1>>
    /\ master_lockbox["alice"].owner = "g2"
    /\ recovery_request[<<"alice", 1>>] = NoAccount
    /\ ApprovedBy(recovery_request[<<"bob", 1>>], recovery_config["alice"]) = {}

\* an approval given under another owner's registry was accepted: g2, who
\* guards bob only, approved alice's session by naming bob's registry
ForeignApprovalAccepted ==
    /\ result.op = "approve_recovery" /\ result.err = "OK"
    /\ result.signer = "g2" /\ result.config = "bob"
    /\ result.request = <<"alice", 1>>
    /\ recovery_request[<<"alice", 1>>].status = "ReadyForReconstruction"
    /\ ~is_active_guardian(recovery_config["alice"], "g2")

\* the intended path: alice's session approved by g1 under alice's registry
\* and completed with alice's registry
OwnRegistryTransfer ==
    /\ result.op = "complete_recovery" /\ result.err = "OK"
    /\ result.config = "alice" /\ result.request = <<"alice", 1>>
    /\ ApprovedBy(recovery_request[<<"alice", 1>>], recovery_config["alice"]) = {"g1"}
    /\ master_lockbox["alice"].owner = "g1"

-----------------------------------------------------------------------------
(* Properties of access after a recovery (SpecAccess)                       *)

\* the last instruction was a storage call by signer s naming vault v and
\* chunk 0 of v, and v records an owner other than the key it was created by
OnRecoveredVault(r, s, v) ==
    /\ r.op \in StorageOps
    /\ r.signer = s
    /\ r.target = <<v, <<v, 0>>>>
    /\ master_lockbox[v].owner # v

\* C25: once a recovery has recorded a new owner in a vault, the new owner's
\* store, read, update and delete calls on that vault and its chunk are not
\* refused by the ownership checks, and the previous owner's calls are refused
\* as Unauthorized.
C25_NewOwnerAccess ==
    [][\A v \in Owners :
          /\ OnRecoveredVault(result', master_lockbox[v].owner, v)
                => result'.err \notin AuthorizationErrors
          /\ OnRecoveredVault(result', v, v) => result'.err = "Unauthorized"]_vars

\* C25 witness: bob, recorded as the owner of alice's vault by a completed
\* recovery, called store on that vault and its chunk and was refused.
C25_Witness ==
    /\ result.op = "store_password_entry"
    /\ OnRecoveredVault(result, "bob", "alice")
    /\ recovery_request[<<"alice", 1>>].status = "Completed"
    /\ master_lockbox["alice"].owner = "bob"
    /\ result.err \in AuthorizationErrors

\* the previous owner is refused as Unauthorized
PreviousOwnerRefused ==
    [][\A v \in Owners :
          OnRecoveredVault(result', v, v)
             => result'.err = "Unauthorized" /\ UNCHANGED storageVars]_vars

\* nobody's storage call on a recovered vault is accepted
RecoveredVaultLocked ==
    [][\A v \in Owners, s \in Owners :
          OnRecoveredVault(result', s, v) => result'.err \in AuthorizationErrors]_vars

-----------------------------------------------------------------------------
(* Properties of the allocation of request ids (SpecBoth)                   *)

\* the sessions of o are exactly 1..last_request_id
DenseIds(cfgs, requests, o) ==
    cfgs[o] # NoAccount => SessionIds(requests, o) = 1..cfgs[o].last_request_id

\* an accepted initiate takes last_request_id + 1 and stores it back
SequentialStep(op, cfgs, cfgs1, requests1) ==
    \A o \in Owners :
       (result'.op = op /\ result'.err = "OK" /\ result'.config = o)
          => /\ requests1[result'.request].request_id = cfgs[o].last_request_id + 1
             /\ cfgs1[o].last_request_id = cfgs[o].last_request_id + 1

\* C26: every accepted initiate creates its session with request_id equal to
\* last_request_id + 1 and stores it back in the same step, and in every state
\* the request ids of an owner's sessions are exactly 1..last_request_id.
C26_SequentialIds ==
    /\ [](\A o \in Owners : /\ DenseIds(recovery_config, recovery_request, o)
                            /\ DenseIds(recovery_config_v2, recovery_request_v2, o))
    /\ [][/\ SequentialStep("initiate_recovery", recovery_config, recovery_config',
                            recovery_request')
          /\ SequentialStep("initiate_recovery_v2", recovery_config_v2,
                            recovery_config_v2', recovery_request_v2')]_vars

\* C26 witness: the first V1 session of alice was created with request_id 2;
\* no session 1 exists and last_request_id is 2.
C26_Witness ==
    /\ result.op = "initiate_recovery" /\ result.err = "OK"
    /\ result.request = <<"alice", 2>>
    /\ recovery_request[<<"alice", 1>>] = NoAccount
    /\ recovery_request[<<"alice", 2>>].request_id = 2
    /\ recovery_config["alice"].last_request_id = 2

\* the challenge variant allocates its ids as stated
SequentialIdsV2 ==
    /\ [](\A o \in Owners : DenseIds(recovery_config_v2, recovery_request_v2, o))
    /\ [][SequentialStep("initiate_recovery_v2", recovery_config_v2,
                         recovery_config_v2', recovery_request_v2')]_vars

\* two V2 sessions in a row
SecondSessionV2 ==
    /\ result.op = "initiate_recovery_v2" /\ result.err = "OK"
    /\ recovery_request_v2[result.request].request_id = 2
    /\ recovery_config_v2[result.config].last_request_id = 2
    /\ recovery_request_v2[<<result.config, 1>>] # NoAccount

-----------------------------------------------------------------------------
(* Properties of the threshold count (SpecCross, SpecStatus)                *)

ConfirmedBy(req) == {req.approvals[i].guardian : i \in 1..Len(req.approvals)}
ConfirmedByV2(req) ==
    {req.participating_guardians[i] : i \in 1..Len(req.participating_guardians)}

\* status against the number of distinct confirmations
StatusCounts(status, confirmed, threshold) ==
    /\ status = "Pending" => Cardinality(confirmed) < threshold
    /\ status \in {"ReadyForReconstruction", "Completed"}
          => Cardinality(confirmed) >= threshold

\* the sessions agree with the threshold of their owner's registry
ThresholdCounts ==
    /\ \A q \in DOMAIN recovery_request :
          (recovery_request[q] # NoAccount /\ recovery_config[q[1]] # NoAccount)
             => /\ StatusCounts(recovery_request[q].status,
                                ConfirmedBy(recovery_request[q]),
                                recovery_config[q[1]].threshold)
                /\ Cardinality(ConfirmedBy(recovery_request[q]))
                      = Len(recovery_request[q].approvals)
    /\ \A q \in DOMAIN recovery_request_v2 :
          (recovery_request_v2[q] # NoAccount /\ recovery_config_v2[q[1]] # NoAccount)
             => /\ StatusCounts(recovery_request_v2[q].status,
                                ConfirmedByV2(recovery_request_v2[q]),
                                recovery_config_v2[q[1]].threshold)
                /\ Cardinality(ConfirmedByV2(recovery_request_v2[q]))
                      = Len(recovery_request_v2[q].participating_guardians)

\* a session turns ReadyForReconstruction only in an accepted approve/confirm
\* call on it, and an accepted call that brings it to threshold turns it
ReadyStep(op, cfgs, requests, requests1, count(_)) ==
    \A q \in DOMAIN requests :
       (requests[q] # NoAccount /\ requests1[q] # NoAccount /\ cfgs[q[1]] # NoAccount)
          => /\ ( /\ requests[q].status # "ReadyForReconstruction"
                  /\ requests1[q].status = "ReadyForReconstruction" )
                => /\ result'.op = op /\ result'.err = "OK" /\ result'.request = q
                   /\ count(requests[q]) < cfgs[q[1]].threshold
                   /\ count(requests1[q]) >= cfgs[q[1]].threshold
             /\ ( /\ result'.op = op /\ result'.err = "OK" /\ result'.request = q
                  /\ count(requests1[q]) >= cfgs[q[1]].threshold )
                => requests1[q].status = "ReadyForReconstruction"

ReadyAtThreshold ==
    /\ ReadyStep("approve_recovery", recovery_config, recovery_request,
                 recovery_request', LAMBDA r : Cardinality(ConfirmedBy(r)))
    /\ ReadyStep("confirm_participation", recovery_config_v2, recovery_request_v2,
                 recovery_request_v2', LAMBDA r : Cardinality(ConfirmedByV2(r)))

\* C27: a Pending session has fewer than threshold confirmations, a
\* ReadyForReconstruction or Completed session has at least threshold distinct
\* confirmations, and the status becomes ReadyForReconstruction in the very
\* approve/confirm call that brings the confirmations to threshold, not earlier.
C27_ThresholdCount == []ThresholdCounts /\ [][ReadyAtThreshold]_vars

\* C27 witness: alice's registry has threshold 2; her session is
\* ReadyForReconstruction with the single approval g2 gave under bob's
\* registry, whose threshold is 1.
C27_Witness ==
    /\ result.op = "approve_recovery" /\ result.err = "OK"
    /\ result.config = "bob" /\ result.request = <<"alice", 1>>
    /\ recovery_config["alice"].threshold = 2
    /\ recovery_request[<<"alice", 1>>].status = "ReadyForReconstruction"
    /\ ConfirmedBy(recovery_request[<<"alice", 1>>]) = {"g2"}

\* with the calls of SpecStatus, which name the session's own registry, the
\* count and the status agree
OwnRegistryThresholdCount == []ThresholdCounts /\ [][ReadyAtThreshold]_vars

\* the second of two approvals turned a V1 session of threshold 2 Ready
ReadyAtSecondApproval ==
    /\ result.op = "approve_recovery" /\ result.err = "OK"
    /\ recovery_config[result.config].threshold = 2
    /\ result.request[1] = result.config
    /\ recovery_request[result.request].status = "ReadyForReconstruction"
    /\ Len(recovery_request[result.request].approvals) = 2

\* the first of two approvals left a V1 session of threshold 2 Pending
PendingBelowThreshold ==
    /\ result.op = "approve_recovery" /\ result.err = "OK"
    /\ recovery_config[result.config].threshold = 2
    /\ result.request[1] = result.config
    /\ recovery_request[result.request].status = "Pending"
    /\ Len(recovery_request[result.request].approvals) = 1

-----------------------------------------------------------------------------
(* Properties of who may open and approve a session (SpecCross, SpecV1)     *)

\* an initiate or approve/confirm call is accepted only from a guardian that is
\* Active in the registry of the owner its session belongs to; a refused call
\* leaves every session as it was
GuardianStep(ops, cfgs, requests, requests1, active(_, _)) ==
    LET r == result' IN
    r.op \in ops
       => /\ r.err = "OK"
             => /\ r.request # << >>
                /\ cfgs[r.request[1]] # NoAccount
                /\ active(cfgs[r.request[1]], r.signer)
          /\ r.err # "OK" => requests1 = requests

\* C28: initiate and confirm/approve succeed only when the caller is a guardian
\* that is Active in the registry of the owner the session belongs to; any other
\* caller is rejected and no session is created or changed.
C28_ActiveInOwnersRegistry ==
    [][/\ GuardianStep({"initiate_recovery", "approve_recovery"}, recovery_config,
                       recovery_request, recovery_request', is_active_guardian)
       /\ GuardianStep({"initiate_recovery_v2", "confirm_participation"},
                       recovery_config_v2, recovery_request_v2, recovery_request_v2',
                       is_active_guardian_v2)]_vars

\* C28 witness: g2, who is in bob's registry only, approved alice's session.
C28_Witness ==
    /\ result.op = "approve_recovery" /\ result.err = "OK"
    /\ result.signer = "g2" /\ result.request = <<"alice", 1>>
    /\ get_guardian(recovery_config["alice"], "g2") = 0
    /\ has_guardian_approved(recovery_request[<<"alice", 1>>], "g2")

\* initiate cannot be turned against another registry: its session is created
\* at the address of the registry it names
InitiateByOwnGuardian ==
    [][GuardianStep({"initiate_recovery"}, recovery_config, recovery_request,
                    recovery_request', is_active_guardian)]_vars

\* a guardian of bob was refused opening a session for alice
ForeignInitiateRefused ==
    /\ result.op = "initiate_recovery" /\ result.err = "NotActiveGuardian"
    /\ result.signer = "g2" /\ result.config = "alice"
    /\ recovery_request[<<"alice", 1>>] = NoAccount

\* with calls that name the session's own registry (SpecV1) callers that are
\* not Active are refused
OwnRegistryGuardianOnly ==
    [][GuardianStep({"initiate_recovery", "approve_recovery"}, recovery_config,
                    recovery_request, recovery_request', is_active_guardian)]_vars

\* a guardian still PendingAcceptance was refused
PendingGuardianRefused ==
    /\ result.op \in {"initiate_recovery", "approve_recovery"}
    /\ result.err = "NotActiveGuardian"
    /\ recovery_config[result.config] # NoAccount
    /\ get_guardian(recovery_config[result.config], result.signer) # 0
    /\ ~is_active_guardian(recovery_config[result.config], result.signer)

\* a guardian that accepted and was then removed was refused on a session that
\* was opened while the guardian was Active
RemovedGuardianRefused ==
    /\ result.op = "approve_recovery" /\ result.err = "NotActiveGuardian"
    /\ recovery_config[result.config] # NoAccount
    /\ get_guardian(recovery_config[result.config], result.signer) = 0
    /\ recovery_request[result.request] # NoAccount
    /\ recovery_request[result.request].requester = result.signer

-----------------------------------------------------------------------------
(* Properties of the order of two approvals (SpecStatus)                    *)

\* the session after g's call followed by h's call
ApproveInOrder(cfg, req, g, h, sh, now) ==
    approve_recovery_handler(cfg,
        approve_recovery_handler(cfg, req, g, sh, now).req, h, sh, now).req

ConfirmInOrder(cfg, req, g, h, now) ==
    confirm_participation_handler(cfg,
        confirm_participation_handler(cfg, req, g, now).req, h, now).req

InsideWindow(req, now) ==
    /\ req.ready_at <= now /\ now <= req.expires_at
    /\ req.status \in {"Pending", "ReadyForReconstruction"}

\* the two orders end with the same confirmations and status, both recorded
SameEitherOrder(gh, hg, confirmed(_), g, h) ==
    /\ confirmed(gh) = confirmed(hg)
    /\ gh.status = hg.status
    /\ {g, h} \subseteq confirmed(gh)

\* V1 sessions on which the calls of g and h are compared
ApprovePairs(below) ==
    {x \in (DOMAIN recovery_request) \X Guardians \X Guardians :
        /\ recovery_request[x[1]] # NoAccount
        /\ recovery_config[x[1][1]] # NoAccount
        /\ x[2] # x[3]
        /\ is_active_guardian(recovery_config[x[1][1]], x[2])
        /\ is_active_guardian(recovery_config[x[1][1]], x[3])
        /\ ~has_guardian_approved(recovery_request[x[1]], x[2])
        /\ ~has_guardian_approved(recovery_request[x[1]], x[3])
        /\ InsideWindow(recovery_request[x[1]], clock)
        /\ below => Len(recovery_request[x[1]].approvals) + 1
                       < recovery_config[x[1][1]].threshold}

ConfirmPairs ==
    {x \in (DOMAIN recovery_request_v2) \X Guardians \X Guardians :
        /\ recovery_request_v2[x[1]] # NoAccount
        /\ recovery_config_v2[x[1][1]] # NoAccount
        /\ x[2] # x[3]
        /\ is_active_guardian_v2(recovery_config_v2[x[1][1]], x[2])
        /\ is_active_guardian_v2(recovery_config_v2[x[1][1]], x[3])
        /\ ~has_guardian_confirmed(recovery_request_v2[x[1]], x[2])
        /\ ~has_guardian_confirmed(recovery_request_v2[x[1]], x[3])
        /\ InsideWindow(recovery_request_v2[x[1]], clock)}

ApproveCommutes(pairs) ==
    \A x \in pairs, sh \in V1Shares :
       LET cfg == recovery_config[x[1][1]]
           req == recovery_request[x[1]]
       IN SameEitherOrder(ApproveInOrder(cfg, req, x[2], x[3], sh, clock),
                          ApproveInOrder(cfg, req, x[3], x[2], sh, clock),
                          ConfirmedBy, x[2], x[3])

ConfirmCommutes ==
    \A x \in ConfirmPairs :
       LET cfg == recovery_config_v2[x[1][1]]
           req == recovery_request_v2[x[1]]
       IN SameEitherOrder(ConfirmInOrder(cfg, req, x[2], x[3], clock),
                          ConfirmInOrder(cfg, req, x[3], x[2], clock),
                          ConfirmedByV2, x[2], x[3])

\* C29: for two distinct Active guardians confirming the same session inside
\* its window, both orders of the two calls give the same confirmation set and
\* the same status, and neither confirmation is lost.
C29_ConfirmsCommute == ApproveCommutes(ApprovePairs(FALSE)) /\ ConfirmCommutes

\* C29 witness: g1 and g2 are Active, the threshold is 1; g1's approval turned
\* the session ReadyForReconstruction and g2's approval, inside the window, was
\* refused, so the session holds the approval of whoever came first.
C29_Witness ==
    /\ result.op = "approve_recovery" /\ result.err = "RecoveryNotReady"
    /\ result.signer = "g2"
    /\ recovery_request[result.request] # NoAccount
    /\ is_active_guardian(recovery_config[result.config], "g1")
    /\ is_active_guardian(recovery_config[result.config], "g2")
    /\ InsideWindow(recovery_request[result.request], clock)
    /\ recovery_request[result.request].status = "ReadyForReconstruction"
    /\ ConfirmedBy(recovery_request[result.request]) = {"g1"}

\* while the first of the two approvals leaves the session below threshold,
\* the two orders agree and both approvals are kept
CommuteBelowThreshold == ApproveCommutes(ApprovePairs(TRUE))

\* g2 and g1 approved a session of threshold 2 in this order
BothOrdersAccepted ==
    /\ result.op = "approve_recovery" /\ result.err = "OK"
    /\ result.signer = "g1"
    /\ ApprovingGuardians(recovery_request[result.request]) = <<"g2", "g1">>
    /\ recovery_request[result.request].status = "ReadyForReconstruction"

\* a Pending V2 session inside its window refused the confirm of an Active
\* guardian that had not confirmed
ConfirmLostV2 ==
    /\ result.op = "confirm_participation" /\ result.err = "RecoveryNotReady"
    /\ <<result.request, "g1", "g2">> \in ConfirmPairs
    /\ recovery_request_v2[result.request].status = "Pending"

-----------------------------------------------------------------------------
(* Properties of the guardian set during a recovery (SpecV1, SpecV2)        *)

\* some session of owner o is Pending or ReadyForReconstruction
ActiveRecovery(requests, o) ==
    \E q \in DOMAIN requests :
       /\ q[1] = o
       /\ requests[q] # NoAccount
       /\ requests[q].status \in {"Pending", "ReadyForReconstruction"}

GuardianSetOps == {"add_guardian", "remove_guardian"}

\* C30: while a session of an owner is Pending or ReadyForReconstruction,
\* add_guardian and remove_guardian on that owner's registry are rejected with
\* ActiveRecoveryExists and leave the registry unchanged.
C30_GuardianSetFrozen ==
    [][LET r == result' IN
       /\ (r.op \in GuardianSetOps /\ ActiveRecovery(recovery_request, r.config))
             => /\ r.err = "ActiveRecoveryExists"
                /\ recovery_config' = recovery_config
       /\ (r.op = "add_guardian_v2" /\ ActiveRecovery(recovery_request_v2, r.config))
             => /\ r.err = "ActiveRecoveryExists"
                /\ recovery_config_v2' = recovery_config_v2]_vars

\* C30 witness: the owner added a guardian while a session was Pending.
C30_Witness ==
    /\ result.op = "add_guardian" /\ result.err = "OK"
    /\ ActiveRecovery(recovery_request, result.config)
    /\ get_guardian(recovery_config[result.config], result.args[1]) # 0

\* the owner removed a guardian while a session was active
RemovedDuringRecovery ==
    /\ result.op = "remove_guardian" /\ result.err = "OK"
    /\ ActiveRecovery(recovery_request, result.config)
    /\ get_guardian(recovery_config[result.config], result.args[1]) = 0

\* a guardian was added to the V2 registry while a session was Pending
AddedDuringRecoveryV2 ==
    /\ result.op = "add_guardian_v2" /\ result.err = "OK"
    /\ ActiveRecovery(recovery_request_v2, result.config)

\* no instruction ever fails with ActiveRecoveryExists
ActiveRecoveryExistsUnused == result.err # "ActiveRecoveryExists"

-----------------------------------------------------------------------------
(* Properties of the tier limit (SpecTier)                                  *)

WithinTier(ml) ==
    /\ ml.storage_used <= max_capacity(ml.subscription_tier)
    /\ ml.total_capacity <= max_capacity(ml.subscription_tier)

\* C31: with the tier held fixed, neither storage_used nor total_capacity of
\* a vault ever exceeds the tier's max_capacity, whatever chunk registrations,
\* expansions, stores, updates and deletes were made.
C31_WithinTierLimit ==
    \A o \in Owners : master_lockbox[o] # NoAccount => WithinTier(master_lockbox[o])

\* C31 witness: an accepted expand_chunk took the total_capacity of a Free
\* vault above the 1024 bytes of its tier.
C31_Witness ==
    /\ result.op = "expand_chunk" /\ result.err = "OK"
    /\ master_lockbox[result.signer].subscription_tier = "Free"
    /\ master_lockbox[result.signer].total_capacity > max_capacity("Free")

\* an accepted update took the storage_used of a Free vault above its tier
UsedAboveTier ==
    /\ result.op = "update_password_entry" /\ result.err = "OK"
    /\ master_lockbox[result.signer].subscription_tier = "Free"
    /\ master_lockbox[result.signer].storage_used > max_capacity("Free")

\* registration and store check the tier: a vault within its tier stays
\* within it in every accepted initialize_storage_chunk and store
RegisterAndStoreChecked ==
    [][\A o \in Owners :
          ( /\ result'.op \in {"initialize_storage_chunk", "store_password_entry"}
            /\ result'.err = "OK" /\ result'.signer = o
            /\ WithinTier(master_lockbox[o]) )
          => WithinTier(master_lockbox'[o])]_vars

\* a second chunk that does not fit the tier was refused
RegistrationRefusedByTier ==
    /\ result.op = "initialize_storage_chunk"
    /\ result.err = "InsufficientStorageCapacity"
    /\ master_lockbox[result.signer].total_capacity + result.id
          > max_capacity(master_lockbox[result.signer].subscription_tier)

\* a store that does not fit the tier was refused
StoreRefusedByTier ==
    /\ result.op = "store_password_entry"
    /\ result.err = "InsufficientStorageCapacity"
    /\ master_lockbox[result.signer].storage_used + Len(result.data)
          > max_capacity(master_lockbox[result.signer].subscription_tier)

-----------------------------------------------------------------------------
(* Properties of the vault's aggregates (SpecTier)                          *)

RECURSIVE SumUsed(_)
SumUsed(chunks) ==
    IF chunks = << >> THEN 0 ELSE chunks[1].size_used + SumUsed(Tail(chunks))

RECURSIVE SumCapacity(_)
SumCapacity(chunks) ==
    IF chunks = << >> THEN 0 ELSE chunks[1].max_capacity + SumCapacity(Tail(chunks))

AggregatesMatch(ml) ==
    /\ ml.storage_used = SumUsed(ml.storage_chunks)
    /\ ml.total_capacity = SumCapacity(ml.storage_chunks)

\* C32: in every reachable state of a vault storage_used is the sum of
\* size_used and total_capacity the sum of max_capacity over the chunk mirror.
C32_AggregatesMatchMirror ==
    \A o \in Owners : master_lockbox[o] # NoAccount => AggregatesMatch(master_lockbox[o])

\* C32 witness: a vault with two chunks, one of them expanded, holding an
\* entry in each, after an update that changed an entry's size.
C32_Witness ==
    /\ result.op = "update_password_entry" /\ result.err = "OK"
    /\ LET ml == master_lockbox[result.signer] IN
       /\ Len(ml.storage_chunks) = 2
       /\ \A i \in 1..2 : ml.storage_chunks[i].size_used > 0
       /\ \E i \in 1..2 : ml.storage_chunks[i].max_capacity > MIN_CHUNK_SIZE
       /\ ml.storage_used = 1040

-----------------------------------------------------------------------------
(* Properties of the chunk mirror (SpecClose, SpecTier)                     *)

\* every mirror entry of the vault at address v describes an existing chunk
MirrorMatchesChunks(v) ==
    \A i \in 1..Len(master_lockbox[v].storage_chunks) :
       LET info == master_lockbox[v].storage_chunks[i]
           p == <<v, info.chunk_index>>
       IN /\ p \in DOMAIN storage_chunk
          /\ storage_chunk[p] # NoAccount
          /\ storage_chunk[p].chunk_index = info.chunk_index
          /\ storage_chunk[p].max_capacity = info.max_capacity
          /\ storage_chunk[p].current_size = info.size_used

\* C33: after every successful operation, closing a chunk included, each
\* entry of the vault's chunk mirror corresponds to an existing chunk with the
\* same index, max_capacity and used_size; a closed chunk is no longer listed
\* in the mirror nor counted in total_capacity and storage_used.
C33_MirrorMatchesChunks ==
    \A v \in Owners : master_lockbox[v] # NoAccount => MirrorMatchesChunks(v)

\* C33 witness: chunk 0, holding an entry, was closed; the mirror still lists
\* it and total_capacity and storage_used still count it.
C33_Witness ==
    /\ result.op = "close_storage_chunk" /\ result.err = "OK" /\ result.idx = 0
    /\ storage_chunk[<<result.signer, 0>>] = NoAccount
    /\ LET ml == master_lockbox[result.signer] IN
       /\ FindChunkInfo(ml, 0) # 0
       /\ ml.storage_chunks[FindChunkInfo(ml, 0)].size_used > 0
       /\ ml.total_capacity = SumCapacity(ml.storage_chunks)
       /\ ml.storage_used = SumUsed(ml.storage_chunks)
       /\ ml.storage_used > 0

\* without close the mirror and the chunks agree
MirrorMatchesWithoutClose ==
    \A v \in Owners : master_lockbox[v] # NoAccount => MirrorMatchesChunks(v)

\* an expand and a store were mirrored
ExpandedAndStored ==
    /\ result.op = "store_password_entry" /\ result.err = "OK"
    /\ LET ml == master_lockbox[result.signer] IN
       \E i \in 1..Len(ml.storage_chunks) :
          /\ ml.storage_chunks[i].max_capacity = MAX_CHUNK_SIZE
          /\ ml.storage_chunks[i].size_used > 0

\* the index of a closed chunk cannot be registered again
ClosedIndexNotReusable ==
    /\ result.op = "initialize_storage_chunk" /\ result.err = "InvalidChunkIndex"
    /\ storage_chunk[<<result.signer, result.idx>>] = NoAccount
    /\ FindChunkInfo(master_lockbox[result.signer], result.idx) # 0

-----------------------------------------------------------------------------
(* Properties of chunk registration (SpecRegister, SpecTier)                *)

MirrorIndices(ml) ==
    {ml.storage_chunks[i].chunk_index : i \in 1..Len(ml.storage_chunks)}

\* at most MAX_CHUNKS mirror entries, their indices exactly 0..len-1
MirrorShape(ml) ==
    /\ Len(ml.storage_chunks) <= MAX_CHUNKS
    /\ MirrorIndices(ml) = 0..(Len(ml.storage_chunks) - 1)
    /\ ml.storage_chunks_count = Len(ml.storage_chunks)

\* registration takes only the index equal to the number of registered
\* chunks, and none once MAX_CHUNKS exist
RegisterStep ==
    LET r == result' IN
    r.op = "initialize_storage_chunk" /\ master_lockbox[r.signer] # NoAccount
       => LET n == Len(master_lockbox[r.signer].storage_chunks) IN
          /\ r.err = "OK" => r.idx = n /\ n < MAX_CHUNKS
          /\ (r.idx # n \/ n >= MAX_CHUNKS)
                => /\ r.err # "OK"
                   /\ master_lockbox' = master_lockbox
                   /\ storage_chunk' = storage_chunk

\* the index of an existing chunk stays what it is
IndexKept ==
    \A p \in DOMAIN storage_chunk :
       (storage_chunk[p] # NoAccount /\ storage_chunk'[p] # NoAccount)
          => storage_chunk'[p].chunk_index = storage_chunk[p].chunk_index

\* C34: registration accepts only chunk_index equal to the number of
\* registered chunks and rejects registration once 100 chunks exist; the mirror
\* holds at most 100 entries with the indices 0..len-1 without duplicates, and
\* a chunk's index never changes.
C34_RegistrationInSequence ==
    /\ [](\A o \in Owners : master_lockbox[o] # NoAccount => MirrorShape(master_lockbox[o]))
    /\ [][RegisterStep /\ IndexKept]_vars

\* C34 witness: with 100 chunks registered, the registration of index 100 was
\* refused.
C34_Witness ==
    /\ result.op = "initialize_storage_chunk" /\ result.err = "MaxChunksReached"
    /\ result.idx = MAX_CHUNKS
    /\ Len(master_lockbox[result.signer].storage_chunks) = MAX_CHUNKS
    /\ storage_chunk[<<result.signer, MAX_CHUNKS>>] = NoAccount

\* an index ahead of the sequence was refused
IndexAheadRefused ==
    /\ result.op = "initialize_storage_chunk" /\ result.err = "InvalidChunkIndex"
    /\ result.idx > Len(master_lockbox[result.signer].storage_chunks)

\* the same holds while chunks are expanded and entries stored, updated and
\* deleted
ShapeKeptByEntryOps ==
    /\ [](\A o \in Owners : master_lockbox[o] # NoAccount => MirrorShape(master_lockbox[o]))
    /\ [][RegisterStep /\ IndexKept]_vars

\* the second chunk was registered after entries were stored in the first
RegisteredAfterStore ==
    /\ result.op = "initialize_storage_chunk" /\ result.err = "OK" /\ result.idx = 1
    /\ master_lockbox[result.signer].storage_used > 0

-----------------------------------------------------------------------------
(* Properties of a chunk's counters (SpecCounters, SpecTier)                *)

ChunkShape(chunk) ==
    /\ chunk.current_size <= chunk.max_capacity
    /\ Len(chunk.entry_headers) <= MAX_ENTRIES_PER_CHUNK
    /\ chunk.entry_count = Len(chunk.entry_headers)

\* a store into a chunk that holds MAX_ENTRIES_PER_CHUNK headers is refused
\* and leaves the chunk as it was
FullChunkStep ==
    LET r == result' IN
    ( /\ r.op = "store_password_entry"
      /\ r.target[2] \in DOMAIN storage_chunk
      /\ storage_chunk[r.target[2]] # NoAccount
      /\ Len(storage_chunk[r.target[2]].entry_headers) >= MAX_ENTRIES_PER_CHUNK )
    => /\ r.err # "OK"
       /\ storage_chunk' = storage_chunk

\* C35: in every reachable state of a chunk used_size <= max_capacity, there
\* are at most 100 headers and entry_count is the number of headers; a store
\* into a chunk that already holds 100 headers is rejected, chunk unchanged.
C35_ChunkShape ==
    /\ [](\A p \in ExistingChunks : ChunkShape(storage_chunk[p]))
    /\ [][FullChunkStep]_vars

\* C35 witness: a chunk with 100 headers and entry_count 100 refused a store.
C35_Witness ==
    /\ result.op = "store_password_entry" /\ result.err = "MaxEntriesPerChunk"
    /\ storage_chunk[result.target[2]].entry_count = MAX_ENTRIES_PER_CHUNK
    /\ Len(storage_chunk[result.target[2]].entry_headers) = MAX_ENTRIES_PER_CHUNK
    /\ storage_chunk[result.target[2]].current_size = MAX_ENTRIES_PER_CHUNK

\* the shape is kept by expand, update and delete as well
ChunkShapeKept == \A p \in ExistingChunks : ChunkShape(storage_chunk[p])

\* a delete brought entry_count down with the headers
CountFollowsDelete ==
    /\ result.op = "delete_password_entry" /\ result.err = "OK"
    /\ storage_chunk[result.target[2]].entry_count = 1
    /\ Len(storage_chunk[result.target[2]].entry_headers) = 1

\* an update that would outgrow the chunk was refused
UpdateRefusedByChunk ==
    /\ result.op = "update_password_entry"
    /\ result.err = "InsufficientChunkCapacity"
    /\ storage_chunk[result.target[2]].current_size <= storage_chunk[result.target[2]].max_capacity

-----------------------------------------------------------------------------
(* Properties of update (SpecChunk)                                          *)

\* what an accepted update of entry e with new_data does to a chunk
UpdateEffect(old, new, e, new_data) ==
    LET pos == HeaderPosition(old, e)
        delta == Len(new_data) - old.entry_headers[pos].size
    IN /\ pos # 0
       /\ get_entry_data(new, e) = [err |-> "OK", data |-> new_data]
       /\ Len(new.entry_headers) = Len(old.entry_headers)
       /\ \A i \in 1..Len(old.entry_headers) :
             /\ new.entry_headers[i].entry_id = old.entry_headers[i].entry_id
             /\ i # pos => /\ new.entry_headers[i].size = old.entry_headers[i].size
                           /\ get_entry_data(new, old.entry_headers[i].entry_id)
                                 = get_entry_data(old, old.entry_headers[i].entry_id)
             /\ i <= pos => new.entry_headers[i].offset = old.entry_headers[i].offset
             /\ i > pos => new.entry_headers[i].offset
                              = old.entry_headers[i].offset + delta

\* C36: an accepted update of entry e makes read(e) return the new payload and
\* leaves read(e') unchanged for every other entry of the chunk; with an equal
\* size no offset changes, otherwise the offsets of the headers after e change
\* by exactly the signed size difference and those before e are unchanged.
C36_UpdateFrame ==
    [][LET r == result' IN
       (r.op = "update_password_entry" /\ r.err = "OK")
          => UpdateEffect(storage_chunk[r.target[2]], storage_chunk'[r.target[2]],
                          r.id, r.data)]_vars

\* C36 witness: the first of two entries grew from 10 to 30 bytes and the
\* second one moved from offset 10 to offset 30.
C36_Witness ==
    /\ result.op = "update_password_entry" /\ result.err = "OK"
    /\ Len(result.data) = 30
    /\ LET c == storage_chunk[result.target[2]] IN
       /\ Len(c.entry_headers) = 2
       /\ c.entry_headers[1].entry_id = result.id
       /\ c.entry_headers[2].offset = 30
       /\ c.entry_headers[2].size = 10
       /\ c.current_size = 40

\* the first of two entries shrank from 30 to 10 bytes
ShrunkInFront ==
    /\ result.op = "update_password_entry" /\ result.err = "OK"
    /\ Len(result.data) = 10
    /\ LET c == storage_chunk[result.target[2]] IN
       /\ Len(c.entry_headers) = 2
       /\ c.entry_headers[1].entry_id = result.id
       /\ c.entry_headers[2].offset = 10
       /\ c.entry_headers[2].size = 30

\* an entry was overwritten in place by a different payload of the same size
OverwrittenInPlace ==
    /\ result.op = "update_password_entry" /\ result.err = "OK"
    /\ result.data = Payload(10, 5)
    /\ LET c == storage_chunk[result.target[2]] IN
       /\ Len(c.entry_headers) = 2
       /\ c.entry_headers[1].entry_id = result.id
       /\ c.entry_headers[2] = [entry_id |-> c.entry_headers[2].entry_id,
                                offset |-> 10, size |-> 10]
       /\ get_entry_data(c, c.entry_headers[2].entry_id).data = Payload(10, 1)

-----------------------------------------------------------------------------
(* Properties of expand (SpecTier)                                           *)

\* what expand_chunk with the argument additional does to vault v and chunk p
ExpandStep(v, p, additional, err) ==
    LET ml == master_lockbox[v]
        chunk == storage_chunk[p]
        pos == FindChunkInfo(ml, chunk.chunk_index)
    IN /\ err = "OK"
          => /\ 0 < additional /\ additional <= MAX_REALLOC_INCREMENT
             /\ chunk.max_capacity + additional <= MAX_CHUNK_SIZE
             /\ storage_chunk'[p]
                   = [chunk EXCEPT !.max_capacity = chunk.max_capacity + additional]
             /\ pos # 0
             /\ master_lockbox'[v]
                   = [ml EXCEPT !.storage_chunks[pos].max_capacity = @ + additional,
                                !.total_capacity = @ + additional]
       /\ err # "OK" => /\ master_lockbox' = master_lockbox
                        /\ storage_chunk' = storage_chunk

\* C37: expand(additional) succeeds only when 0 < additional <= 10240 and
\* max_capacity + additional <= 10240; on success the chunk's max_capacity,
\* its mirror entry's max_capacity and the vault's total_capacity grow by
\* exactly additional and the arena, the headers and used_size stay as they
\* were; on failure nothing changes.
C37_ExpandBounded ==
    [][LET r == result' IN
       r.op = "expand_chunk"
          => /\ (r.err = "OK" \/ storage_chunk[r.target[2]] # NoAccount)
                => ExpandStep(r.target[1], r.target[2], r.id, r.err)
             /\ r.err # "OK" => /\ master_lockbox' = master_lockbox
                                /\ storage_chunk' = storage_chunk]_vars

\* C37 witness: a chunk of 1024 bytes holding an entry was expanded by 9216
\* bytes to the ceiling.
C37_Witness ==
    /\ result.op = "expand_chunk" /\ result.err = "OK"
    /\ result.id = MAX_CHUNK_SIZE - MIN_CHUNK_SIZE
    /\ storage_chunk[result.target[2]].max_capacity = MAX_CHUNK_SIZE
    /\ storage_chunk[result.target[2]].current_size > 0
    /\ Len(storage_chunk[result.target[2]].entry_headers) > 0

\* an expand by 0 bytes was refused
ZeroGrowthRefused ==
    /\ result.op = "expand_chunk" /\ result.err = "ReallocTooLarge" /\ result.id = 0

\* an expand beyond the ceiling was refused
BeyondCeilingRefused ==
    /\ result.op = "expand_chunk" /\ result.err = "ChunkTooLarge"
    /\ storage_chunk[result.target[2]].max_capacity + result.id > MAX_CHUNK_SIZE
    /\ result.id <= MAX_REALLOC_INCREMENT

-----------------------------------------------------------------------------
(* Properties of the rate limiter's check (SpecPermit)                      *)

\* C38: the check is true exactly when last_recovery_attempt is 0 or the time
\* since it is at least the cooldown: true at exactly last_recovery_attempt +
\* cooldown and false one second earlier.
C38_PermitExact ==
    result.op = "check_recovery_rate_limit"
       => LET last == recovery_config_v2[result.config].last_recovery_attempt
              cooldown == result.cooldown_seconds
          IN /\ result.permitted <=> (last = 0 \/ clock >= last + cooldown)
             /\ (last # 0 /\ clock = last + cooldown) => result.permitted
             /\ (last # 0 /\ clock = last + cooldown - 1) => ~result.permitted

\* C38 witness: one hour after the last attempt, to the second, the check is
\* true.
C38_Witness ==
    /\ result.op = "check_recovery_rate_limit"
    /\ recovery_config_v2[result.config].last_recovery_attempt = PermitEpoch
    /\ result.cooldown_seconds = RECOVERY_COOLDOWN
    /\ clock = PermitEpoch + RECOVERY_COOLDOWN
    /\ result.permitted

\* one second earlier it is false
RefusedOneSecondEarly ==
    /\ result.op = "check_recovery_rate_limit"
    /\ recovery_config_v2[result.config].last_recovery_attempt = PermitEpoch
    /\ result.cooldown_seconds = RECOVERY_COOLDOWN
    /\ clock = PermitEpoch + RECOVERY_COOLDOWN - 1
    /\ ~result.permitted

\* with no attempt recorded it is true whatever the time
FirstAttemptPermitted ==
    /\ result.op = "check_recovery_rate_limit"
    /\ recovery_config_v2[result.config].last_recovery_attempt = 0
    /\ clock < result.cooldown_seconds
    /\ result.permitted

\* a time before the recorded attempt is refused
EarlierTimeRefused ==
    /\ result.op = "check_recovery_rate_limit"
    /\ recovery_config_v2[result.config].last_recovery_attempt > clock
    /\ ~result.permitted


-----------------------------------------------------------------------------
(* C39: a successful complete_recovery or complete_recovery_with_proof sets  *)
(* the owner of the vault to the session's new_owner if it holds one and to  *)
(* the session's requester otherwise, and the session's status to Completed; *)
(* every other field of the vault, every other vault and every chunk stay    *)
(* what they were.                                                           *)

CompleteOps == {"complete_recovery", "complete_recovery_with_proof"}

\* the session a complete was handed, before and after it
SessionBefore == IF result'.op = "complete_recovery" THEN recovery_request[result'.request]
                 ELSE recovery_request_v2[result'.request]

SessionAfter == IF result'.op = "complete_recovery" THEN recovery_request'[result'.request]
                ELSE recovery_request_v2'[result'.request]

DesignatedOwner(req) == IF req.new_owner # "None" THEN req.new_owner ELSE req.requester

CompleteStep ==
    (result'.op \in CompleteOps /\ result'.err = "OK") =>
        LET v == result'.config IN
          /\ master_lockbox'[v].owner = DesignatedOwner(SessionBefore)
          /\ SessionAfter = [SessionBefore EXCEPT !.status = "Completed"]
          /\ master_lockbox' = [master_lockbox EXCEPT
                                   ![v] = [@ EXCEPT !.owner = master_lockbox'[v].owner]]
          /\ storage_chunk' = storage_chunk

C39_CompleteEffect == [][CompleteStep]_vars

\* a session without new_owner has been completed on a vault that holds an
\* entry: the requester g1 owns the vault
C39_Witness ==
    /\ result.op = "complete_recovery" /\ result.err = "OK"
    /\ recovery_request[result.request].new_owner = "None"
    /\ recovery_request[result.request].status = "Completed"
    /\ master_lockbox[result.config].owner = "g1"
    /\ master_lockbox[result.config].total_entries > 0

\* a V2 session with the designated owner bob has been completed
DesignatedOwnerV2 ==
    /\ result.op = "complete_recovery_with_proof" /\ result.err = "OK"
    /\ recovery_request_v2[result.request].new_owner = "bob"
    /\ recovery_request_v2[result.request].status = "Completed"
    /\ master_lockbox[result.config].owner = "bob"
    /\ master_lockbox[result.config].total_entries > 0

\* a V2 session without new_owner has been completed on a vault whose V1
\* session had given it to bob: the V2 requester owns it
RequesterAfterDesignated ==
    /\ result.op = "complete_recovery_with_proof" /\ result.err = "OK"
    /\ recovery_request_v2[result.request].new_owner = "None"
    /\ recovery_request[result.request] # NoAccount
    /\ recovery_request[result.request].status = "Completed"
    /\ recovery_request[result.request].new_owner = "bob"
    /\ master_lockbox[result.config].owner = recovery_request_v2[result.request].requester

\* a refused complete leaves owner and status alone
CompleteRefused ==
    /\ result.op = "complete_recovery_with_proof" /\ result.err = "InvalidProof"
    /\ recovery_request_v2[result.request].status = "ReadyForReconstruction"
    /\ master_lockbox[result.config].owner = ProofOwner

=============================================================================
